---- MODULE Spec2Model ----
(***************************************************************************)
(* A model of the provenanceai pipeline: ProvenanceInferencer,             *)
(* TrustScoringEngine and AIPolicyEngine.                                  *)
(*                                                                         *)
(* Conventions.                                                            *)
(*  - Python None of an enum-valued or string-valued field is the string   *)
(*    NONE; an Optional object is a sequence: <<>> for None, <<x>> for x.  *)
(*  - A dict is a function whose DOMAIN is its key set.                    *)
(*  - A float is the exact rational it denotes, a record [n, d] in lowest  *)
(*    terms; binary rounding is not modelled.                              *)
(*  - A string is an atom; the substring, case and regex facts the code    *)
(*    computes on it are tabulated for the strings of the vocabulary.      *)
(***************************************************************************)
EXTENDS Integers, Sequences, FiniteSets, TLC

VARIABLES
    rules,          \* TrustScoringEngine.rules of the engine under test
    now_year,       \* datetime.now(timezone.utc).year, the wall clock
    ticks,          \* how often the clock has advanced
    score_args,     \* the (provenance, content_metadata) the caller passes
    score_call,     \* the last calculate_trust_scores call: clock and result
    policy_args,    \* the (provenance, trust) passed to determine_policy
    policy_call,    \* the AIUseBlock the last determine_policy call returned
    inferencers,    \* the ProvenanceInferencer objects, by identity
    hash_seed,      \* per inferencer, the str hash seed of its process (PYTHONHASHSEED)
    clock,          \* datetime.now(timezone.utc), in ticks
    infer_input,    \* the (content, metadata) a caller passes again and again
    infer_calls,    \* the infer_from_metadata calls made so far, oldest first
    threads,        \* per thread inside infer_from_metadata: its frame
    analyze_call,   \* the last analyze call: the loader result, the report, its JSON
    config_file,    \* what the file at config_path holds; <<>> without a config_path
    cache,          \* a DocumentCache: max_size, the *.pkl files of cache_dir, the time
    set_call        \* the last DocumentCache.set call

scoreVars == <<rules, now_year, ticks, score_args, score_call>>
policyVars == <<policy_args, policy_call>>
inferVars == <<inferencers, hash_seed, clock, infer_input, infer_calls, threads>>
apiVars == <<analyze_call, config_file>>
cacheVars == <<cache, set_call>>
vars == <<scoreVars, policyVars, inferVars, apiVars, cacheVars>>

\* no inferencer is under study
IdleApi == analyze_call = <<>> /\ config_file = <<>>

\* no cache is under study
IdleCache == cache = <<>> /\ set_call = <<>>

IdleInfer ==
    /\ inferencers = <<>>
    /\ hash_seed = <<>>
    /\ clock = 0
    /\ infer_input = <<>>
    /\ infer_calls = <<>>
    /\ threads = <<>>

NONE == "None"
Nothing == <<>>
Some(x) == <<x>>
IsSome(o) == o # <<>>
The(o) == o[1]

(***************************************************************************)
(* Exact rationals                                                         *)
(***************************************************************************)
RECURSIVE GCD(_, _)
GCD(a, b) == IF b = 0 THEN a ELSE GCD(b, a % b)

Abs(x) == IF x < 0 THEN -x ELSE x

R(n, d) ==
    LET g == GCD(Abs(n), d)
    IN  [n |-> n \div g, d |-> d \div g]

RAdd(a, b) == R(a.n * b.d + b.n * a.d, a.d * b.d)
RMul(a, b) == R(a.n * b.n, a.d * b.d)
RDiv(a, b) == IF b.n > 0 THEN R(a.n * b.d, a.d * b.n) ELSE R(-(a.n * b.d), a.d * (-b.n))
RLeq(a, b) == a.n * b.d <= b.n * a.d
RLess(a, b) == a.n * b.d < b.n * a.d
RMax(a, b) == IF RLeq(b, a) THEN a ELSE b
RZero == R(0, 1)

\* sum(d.values()) and sum(f(k) for k in d) over a finite key set
RECURSIVE RSum(_, _)
RSum(f, keys) ==
    IF keys = {} THEN RZero
    ELSE LET k == CHOOSE x \in keys : TRUE
         IN  RAdd(f[k], RSum(f, keys \ {k}))

\* dict.get(key): None when the key is absent
Get(dict, key) == IF key \in DOMAIN dict THEN Some(dict[key]) ELSE Nothing

\* bool(x) of an Optional whose value, when present, is a dict
TruthyDict(o) == IsSome(o) /\ DOMAIN The(o) # {}

(***************************************************************************)
(* core/schema.py: the enumerations, by their .value strings               *)
(***************************************************************************)
DocumentType ==
    { "research_paper", "technical_report", "government_document",
      "newspaper_article", "blog_post", "conference_paper", "preprint",
      "thesis", "patent", "legal_document", "wikipedia_entry", "standard",
      "unknown" }

ReviewStatus == { "peer_reviewed", "editor_reviewed", "self_published", "unreviewed" }

LicenseType ==
    { "CC-BY", "CC-BY-NC", "CC-BY-SA", "CC-BY-NC-SA", "CC0", "copyrighted",
      "public_domain", "unknown" }

AIUsagePermission ==
    { "allowed", "attribution_required", "non_commercial_only", "no_training",
      "no_quoting", "no_summarization", "prohibited" }

(***************************************************************************)
(* Strings.  Lower is str.lower(); Contains(s, t) is the Python test       *)
(* `t in s`, tabulated for the strings of the vocabulary and the terms the *)
(* code searches for.                                                      *)
(***************************************************************************)
\* str.lower()
Lower(s) ==
    CASE s = "arXiv:2301.00001" -> "arxiv:2301.00001"
      [] s = "Doctoral Thesis" -> "doctoral thesis"
      [] s = "Jane Roe, PhD" -> "jane roe, phd"
      [] s = "Plaintiff v. Defendant" -> "plaintiff v. defendant"
      [] s = "Authors: Dr. Alice, Dr. Bob" -> "authors: dr. alice, dr. bob"
      [] s = "  Stanford University " -> "  stanford university "
      [] s = "Contact: alice@mit.edu" -> "contact: alice@mit.edu"
      [] s = "This paper was peer-reviewed" -> "this paper was peer-reviewed"
      [] s = "Posted on my blog, 2023-05-17" -> "posted on my blog, 2023-05-17"
      [] s = "Just some random text" -> "just some random text"
      [] s = "Abstract" -> "abstract"
      [] s = "Stanford University" -> "stanford university"
      [] s = "Acme Corp" -> "acme corp"
      [] s = "NIH" -> "nih"
      [] s = "University Press Inc." -> "university press inc."
      [] s = "Jane Smith" -> "jane smith"
      [] s = "Dr. John Doe" -> "dr. john doe"
      [] s = "Research Paper on AI Ethics" -> "research paper on ai ethics"
      [] s = "Smith, J. (2023). Deep Nets. arXiv:2301.00001" -> "smith, j. (2023). deep nets. arxiv:2301.00001"
      [] s = "Smith, J. (2023). Deep Nets. Journal of AI" -> "smith, j. (2023). deep nets. journal of ai"
      [] s = "Smith, J. (2023). Deep Nets. arxiv.org" -> "smith, j. (2023). deep nets. arxiv.org"
      [] s = "Annual_Report.pdf" -> "annual_report.pdf"
      [] s = "US_Patent_123.pdf" -> "us_patent_123.pdf"
      [] s = "Patent; invention" -> "patent; invention"
      [] s = "Deep Nets" -> "deep nets"
      [] s = "2020-03-04T10:00:00" -> "2020-03-04t10:00:00"
      [] s = "References" -> "references"
      [] s = "As shown in [1, 2] and (Smith, 2014)" -> "as shown in [1, 2] and (smith, 2014)"
      [] s = "Quarterly results" -> "quarterly results"
      [] s = "D:20200304100000Z" -> "d:20200304100000z"
      [] s = "Report no. 7" -> "report no. 7"
      [] s = "Journal of Testing, Vol. 3, pp. 1-9" -> "journal of testing, vol. 3, pp. 1-9"
      [] s = "See https://doi.org/abc" -> "see https://doi.org/abc"
      [] s = "Refereed edition" -> "refereed edition"
      [] s = "Read it on medium.com" -> "read it on medium.com"
      [] s = "Issue no. 5 of my blog" -> "issue no. 5 of my blog"
      [] s = "Date: 05/17/2023" -> "date: 05/17/2023"
      [] s = "Copyright 2021" -> "copyright 2021"
      [] s = "Released 2022-11-30, revised 2024" -> "released 2022-11-30, revised 2024"
      [] s = "Stanford University " -> "stanford university "
      [] s = "  Stanford University" -> "  stanford university"
      [] OTHER -> s

\* str.strip()
Strip(s) ==
    CASE s = "  Stanford University " -> "Stanford University"
      [] s = "\n" -> ""
      [] s = "\n\n" -> ""
      [] s = "; " -> ";"
      [] s = " (" -> "("
      [] s = "). " -> ")."
      [] s = ". " -> "."
      [] s = "Stanford University " -> "Stanford University"
      [] s = "  Stanford University" -> "Stanford University"
      [] s = "  stanford university " -> "stanford university"
      [] s = "stanford university " -> "stanford university"
      [] s = "  stanford university" -> "stanford university"
      [] OTHER -> s

\* str.lstrip(), the left half of strip() on a text of several lines
LStrip(s) ==
    CASE s = "  Stanford University " -> "Stanford University "
      [] s = "\n" -> ""
      [] s = "\n\n" -> ""
      [] s = " (" -> "("
      [] s = "  Stanford University" -> "Stanford University"
      [] s = "  stanford university " -> "stanford university "
      [] s = "  stanford university" -> "stanford university"
      [] OTHER -> s

\* str.rstrip(), the right half of strip() on a text of several lines
RStrip(s) ==
    CASE s = "  Stanford University " -> "  Stanford University"
      [] s = "\n" -> ""
      [] s = "\n\n" -> ""
      [] s = "; " -> ";"
      [] s = "). " -> ")."
      [] s = ". " -> "."
      [] s = "Stanford University " -> "Stanford University"
      [] s = "  stanford university " -> "  stanford university"
      [] s = "stanford university " -> "stanford university"
      [] OTHER -> s

\* the pairs <<s, t>> with `t in s`
SubstringFacts ==
    { <<"arXiv:2301.00001", "arXiv">>,
      <<"Plaintiff v. Defendant", "v.">>,
      <<"Authors: Dr. Alice, Dr. Bob", "Dr.">>,
      <<"Contact: alice@mit.edu", ".edu">>,
      <<"This paper was peer-reviewed", "peer-reviewed">>,
      <<"Posted on my blog, 2023-05-17", "blog">>,
      <<"Dr. John Doe", "Dr.">>,
      <<"Smith, J. (2023). Deep Nets. arXiv:2301.00001", "arXiv">>,
      <<"Smith, J. (2023). Deep Nets. arxiv.org", "v.">>,
      <<"patent_report.pdf", "patent">>,
      <<"patent_report.pdf", "report">>,
      <<"Report no. 7", "no.">>,
      <<"Journal of Testing, Vol. 3, pp. 1-9", "pp.">>,
      <<"See https://doi.org/abc", "doi.org">>,
      <<"Read it on medium.com", "medium.com">>,
      <<"Issue no. 5 of my blog", "no.">>,
      <<"Issue no. 5 of my blog", "blog">>,
      <<"alice@mit.edu", ".edu">>,
      <<"mit.edu", ".edu">>,
      <<"doctoral thesis", "thesis">>,
      <<"jane roe, phd", "phd">>,
      <<"plaintiff v. defendant", "v.">>,
      <<"plaintiff v. defendant", "plaintiff">>,
      <<"plaintiff v. defendant", "defendant">>,
      <<"  stanford university ", "university">>,
      <<"contact: alice@mit.edu", ".edu">>,
      <<"this paper was peer-reviewed", "peer-reviewed">>,
      <<"posted on my blog, 2023-05-17", "posted on">>,
      <<"posted on my blog, 2023-05-17", "blog">>,
      <<"stanford university", "university">>,
      <<"acme corp", "corp">>,
      <<"university press inc.", "university">>,
      <<"university press inc.", "inc.">>,
      <<"smith, j. (2023). deep nets. journal of ai", "journal of">>,
      <<"smith, j. (2023). deep nets. arxiv.org", "v.">>,
      <<"annual_report.pdf", "report">>,
      <<"us_patent_123.pdf", "patent">>,
      <<"patent; invention", "patent">>,
      <<"report no. 7", "report">>,
      <<"report no. 7", "no.">>,
      <<"journal of testing, vol. 3, pp. 1-9", "journal of">>,
      <<"journal of testing, vol. 3, pp. 1-9", "vol.">>,
      <<"journal of testing, vol. 3, pp. 1-9", "pp.">>,
      <<"see https://doi.org/abc", "doi.org">>,
      <<"refereed edition", "refereed">>,
      <<"read it on medium.com", "medium.com">>,
      <<"issue no. 5 of my blog", "no.">>,
      <<"issue no. 5 of my blog", "blog">>,
      <<"stanford university ", "university">>,
      <<"  stanford university", "university">> }

Contains(s, t) == <<s, t>> \in SubstringFacts

\* re.search(ARXIV_PATTERN | DOI_PATTERN, s, re.IGNORECASE) finds a match;
\* author_label: re.match(r"^\s*(authors?|by)\b", s) or re.search(r"\bwritten by\b", s)
\* references_header: the section header pattern of api._check_for_references;
\* citation_patterns: one of the three patterns of api._check_for_citations
RegexFacts ==
    { <<"ARXIV_PATTERN", "arXiv:2301.00001">>,
      <<"citation_patterns", "arXiv:2301.00001">>,
      <<"DOI_PATTERN", "doi:10.1000/xyz123">>,
      <<"citation_patterns", "doi:10.1000/xyz123">>,
      <<"citation_patterns", "Posted on my blog, 2023-05-17">>,
      <<"ARXIV_PATTERN", "Smith, J. (2023). Deep Nets. arXiv:2301.00001">>,
      <<"citation_patterns", "Smith, J. (2023). Deep Nets. arXiv:2301.00001">>,
      <<"citation_patterns", "Smith, J. (2023). Deep Nets. Journal of AI">>,
      <<"citation_patterns", "Smith, J. (2023). Deep Nets. arxiv.org">>,
      <<"citation_patterns", "2020-03-04T10:00:00">>,
      <<"citation_patterns", "2019-01-01">>,
      <<"references_header", "References">>,
      <<"citation_patterns", "As shown in [1, 2] and (Smith, 2014)">>,
      <<"citation_patterns", "D:20200304100000Z">>,
      <<"citation_patterns", "Date: 05/17/2023">>,
      <<"citation_patterns", "Copyright 2021">>,
      <<"citation_patterns", "Released 2022-11-30, revised 2024">>,
      <<"ARXIV_PATTERN", "arxiv:2301.00001">>,
      <<"citation_patterns", "arxiv:2301.00001">>,
      <<"author_label", "authors: dr. alice, dr. bob">>,
      <<"citation_patterns", "posted on my blog, 2023-05-17">>,
      <<"ARXIV_PATTERN", "smith, j. (2023). deep nets. arxiv:2301.00001">>,
      <<"citation_patterns", "smith, j. (2023). deep nets. arxiv:2301.00001">>,
      <<"citation_patterns", "smith, j. (2023). deep nets. journal of ai">>,
      <<"citation_patterns", "smith, j. (2023). deep nets. arxiv.org">>,
      <<"citation_patterns", "2020-03-04t10:00:00">>,
      <<"references_header", "references">>,
      <<"citation_patterns", "as shown in [1, 2] and (smith, 2014)">>,
      <<"citation_patterns", "d:20200304100000z">>,
      <<"citation_patterns", "date: 05/17/2023">>,
      <<"citation_patterns", "copyright 2021">>,
      <<"citation_patterns", "released 2022-11-30, revised 2024">> }

RegexSearch(pattern, s) == <<pattern, s>> \in RegexFacts

\* re.findall(pattern, s): the matches, left to right
RegexFindall(pattern, s) ==
    CASE pattern = "DATE_YEAR" /\ s = "arXiv:2301.00001" -> <<"2301", "0000">>
      [] pattern = "DATE_YEAR" /\ s = "doi:10.1000/xyz123" -> <<"1000">>
      [] pattern = "EMAIL_PATTERN" /\ s = "Contact: alice@mit.edu" -> <<"alice@mit.edu">>
      [] pattern = "DATE_ISO" /\ s = "Posted on my blog, 2023-05-17" -> <<"2023-05-17">>
      [] pattern = "DATE_YEAR" /\ s = "Posted on my blog, 2023-05-17" -> <<"2023">>
      [] pattern = "DATE_YEAR" /\ s = "Smith, J. (2023). Deep Nets. arXiv:2301.00001" -> <<"2023", "2301", "0000">>
      [] pattern = "DATE_YEAR" /\ s = "Smith, J. (2023). Deep Nets. Journal of AI" -> <<"2023">>
      [] pattern = "DATE_YEAR" /\ s = "Smith, J. (2023). Deep Nets. arxiv.org" -> <<"2023">>
      [] pattern = "DATE_ISO" /\ s = "2020-03-04T10:00:00" -> <<"2020-03-04">>
      [] pattern = "DATE_YEAR" /\ s = "2020-03-04T10:00:00" -> <<"2020">>
      [] pattern = "DATE_ISO" /\ s = "2019-01-01" -> <<"2019-01-01">>
      [] pattern = "DATE_YEAR" /\ s = "2019-01-01" -> <<"2019">>
      [] pattern = "DATE_YEAR" /\ s = "As shown in [1, 2] and (Smith, 2014)" -> <<"2014">>
      [] pattern = "DATE_YEAR" /\ s = "D:20200304100000Z" -> <<"2020", "0304", "1000">>
      [] pattern = "DATE_US" /\ s = "Date: 05/17/2023" -> <<"05/17/2023">>
      [] pattern = "DATE_YEAR" /\ s = "Date: 05/17/2023" -> <<"2023">>
      [] pattern = "DATE_YEAR" /\ s = "Copyright 2021" -> <<"2021">>
      [] pattern = "DATE_ISO" /\ s = "Released 2022-11-30, revised 2024" -> <<"2022-11-30">>
      [] pattern = "DATE_YEAR" /\ s = "Released 2022-11-30, revised 2024" -> <<"2022", "2024">>
      [] pattern = "EMAIL_PATTERN" /\ s = "alice@mit.edu" -> <<"alice@mit.edu">>
      [] pattern = "DATE_YEAR" /\ s = "arxiv:2301.00001" -> <<"2301", "0000">>
      [] pattern = "EMAIL_PATTERN" /\ s = "contact: alice@mit.edu" -> <<"alice@mit.edu">>
      [] pattern = "DATE_ISO" /\ s = "posted on my blog, 2023-05-17" -> <<"2023-05-17">>
      [] pattern = "DATE_YEAR" /\ s = "posted on my blog, 2023-05-17" -> <<"2023">>
      [] pattern = "DATE_YEAR" /\ s = "smith, j. (2023). deep nets. arxiv:2301.00001" -> <<"2023", "2301", "0000">>
      [] pattern = "DATE_YEAR" /\ s = "smith, j. (2023). deep nets. journal of ai" -> <<"2023">>
      [] pattern = "DATE_YEAR" /\ s = "smith, j. (2023). deep nets. arxiv.org" -> <<"2023">>
      [] pattern = "DATE_ISO" /\ s = "2020-03-04t10:00:00" -> <<"2020-03-04">>
      [] pattern = "DATE_YEAR" /\ s = "2020-03-04t10:00:00" -> <<"2020">>
      [] pattern = "DATE_YEAR" /\ s = "as shown in [1, 2] and (smith, 2014)" -> <<"2014">>
      [] pattern = "DATE_YEAR" /\ s = "d:20200304100000z" -> <<"2020", "0304", "1000">>
      [] pattern = "DATE_US" /\ s = "date: 05/17/2023" -> <<"05/17/2023">>
      [] pattern = "DATE_YEAR" /\ s = "date: 05/17/2023" -> <<"2023">>
      [] pattern = "DATE_YEAR" /\ s = "copyright 2021" -> <<"2021">>
      [] pattern = "DATE_ISO" /\ s = "released 2022-11-30, revised 2024" -> <<"2022-11-30">>
      [] pattern = "DATE_YEAR" /\ s = "released 2022-11-30, revised 2024" -> <<"2022", "2024">>
      [] OTHER -> <<>>

\* email.split("@")[1]
EmailDomain(email) ==
    CASE email = "alice@mit.edu" -> "mit.edu"
      [] OTHER -> ""

\* int(s) of a four-digit string
ParseInt(s) ==
    CASE s = "0000" -> 0
      [] s = "0304" -> 304
      [] s = "1000" -> 1000
      [] s = "2014" -> 2014
      [] s = "2019" -> 2019
      [] s = "2020" -> 2020
      [] s = "2021" -> 2021
      [] s = "2022" -> 2022
      [] s = "2023" -> 2023
      [] s = "2024" -> 2024
      [] s = "2301" -> 2301
      [] OTHER -> 0

\* datetime.fromisoformat(str(value)[:10]): the date, or <<>> for a ValueError
FromIsoPrefix(s) ==
    CASE s = "2020-03-04T10:00:00" -> <<[ year |-> 2020, month |-> 3, day |-> 4 ]>>
      [] s = "2019-01-01" -> <<[ year |-> 2019, month |-> 1, day |-> 1 ]>>
      [] s = "2020-03-04t10:00:00" -> <<[ year |-> 2020, month |-> 3, day |-> 4 ]>>
      [] OTHER -> <<>>

\* the year a match of a date pattern names: the first four characters of
\* YYYY-MM-DD, the last four of MM/DD/YYYY, the four of a bare year
MatchedYear(pattern, match) ==
    CASE pattern = "DATE_YEAR" /\ match = "2301" -> 2301
      [] pattern = "DATE_YEAR" /\ match = "0000" -> 0
      [] pattern = "DATE_YEAR" /\ match = "1000" -> 1000
      [] pattern = "DATE_ISO" /\ match = "2023-05-17" -> 2023
      [] pattern = "DATE_YEAR" /\ match = "2023" -> 2023
      [] pattern = "DATE_ISO" /\ match = "2020-03-04" -> 2020
      [] pattern = "DATE_YEAR" /\ match = "2020" -> 2020
      [] pattern = "DATE_ISO" /\ match = "2019-01-01" -> 2019
      [] pattern = "DATE_YEAR" /\ match = "2019" -> 2019
      [] pattern = "DATE_YEAR" /\ match = "2014" -> 2014
      [] pattern = "DATE_YEAR" /\ match = "0304" -> 304
      [] pattern = "DATE_US" /\ match = "05/17/2023" -> 2023
      [] pattern = "DATE_YEAR" /\ match = "2021" -> 2021
      [] pattern = "DATE_ISO" /\ match = "2022-11-30" -> 2022
      [] pattern = "DATE_YEAR" /\ match = "2022" -> 2022
      [] pattern = "DATE_YEAR" /\ match = "2024" -> 2024
      [] OTHER -> 0

\* A text is a string given as the sequence of the atoms it concatenates
\* (the lines of a paragraph, the parts of a formatted citation).
TextLower(text) == [ i \in DOMAIN text |-> Lower(text[i]) ]
TextContains(text, t) == \E i \in DOMAIN text : Contains(text[i], t)

(***************************************************************************)
(* trust/scoring_engine.py                                                 *)
(***************************************************************************)
Dimensions == { "authority", "document_type", "review", "currency", "completeness" }

BuiltinWeights ==
    [ authority |-> R(3, 10), document_type |-> R(2, 10), review |-> R(25, 100),
      currency |-> R(15, 100), completeness |-> R(1, 10) ]

\* _get_default_rules
get_default_rules ==
    [ weights |-> BuiltinWeights,
      document_type_scores |->
        [ research_paper |-> R(9, 10), government_document |-> R(85, 100),
          technical_report |-> R(8, 10), thesis |-> R(8, 10),
          conference_paper |-> R(7, 10), patent |-> R(75, 100),
          newspaper_article |-> R(6, 10), preprint |-> R(5, 10),
          blog_post |-> R(3, 10), unknown |-> R(4, 10) ],
      review_scores |->
        [ peer_reviewed |-> R(9, 10), editor_reviewed |-> R(7, 10),
          self_published |-> R(4, 10), unreviewed |-> R(3, 10) ] ]

\* TrustScoringEngine.__init__: rules_config or self._get_default_rules()
TrustScoringEngine_init(rules_config) ==
    IF TruthyDict(rules_config) THEN The(rules_config) ELSE get_default_rules

TrustScore(score, confidence, dimensions, explanation, rule_applied) ==
    [ score |-> score, confidence |-> confidence, dimensions |-> dimensions,
      explanation |-> explanation, rule_applied |-> rule_applied ]

AcademicGovTerms == { ".gov", ".edu", "university", "college" }
CorporateTerms == { "inc.", "corp", "ltd", "gmbh" }
CredentialTitles == { "Ph.D", "Dr.", "Professor" }

\* the loop with a tag of its own for an institution of neither class
RECURSIVE InstitutionLoop_other_tags(_, _, _)
InstitutionLoop_other_tags(institutions, i, st) ==
    IF i > Len(institutions) THEN st
    ELSE LET inst_lower == TextLower(institutions[i])
             next ==
                 IF \E term \in AcademicGovTerms : TextContains(inst_lower, term)
                 THEN [ inst_score |-> RMax(st.inst_score, R(8, 10)),
                        rule_applied |-> "academic_gov_institution" ]
                 ELSE IF \E term \in CorporateTerms : TextContains(inst_lower, term)
                 THEN [ inst_score |-> RMax(st.inst_score, R(6, 10)),
                        rule_applied |-> "corporate_institution" ]
                 ELSE [ inst_score |-> RMax(st.inst_score, R(4, 10)),
                        rule_applied |-> "institution_analysis" ]
         IN  InstitutionLoop_other_tags(institutions, i + 1, next)

\* mutant: the last institution's candidate replaces the running maximum
RECURSIVE InstitutionLoop_last_wins(_, _, _)
InstitutionLoop_last_wins(institutions, i, st) ==
    IF i > Len(institutions) THEN st
    ELSE LET inst_lower == TextLower(institutions[i])
             next ==
                 IF \E term \in AcademicGovTerms : TextContains(inst_lower, term)
                 THEN [ inst_score |-> R(8, 10),
                        rule_applied |-> "academic_gov_institution" ]
                 ELSE IF \E term \in CorporateTerms : TextContains(inst_lower, term)
                 THEN [ inst_score |-> R(6, 10),
                        rule_applied |-> "corporate_institution" ]
                 ELSE [ inst_score |-> R(4, 10),
                        rule_applied |-> st.rule_applied ]
         IN  InstitutionLoop_last_wins(institutions, i + 1, next)

\* the body of `for institution in provenance.institutions`, from element i on;
\* st holds the loop's inst_score and rule_applied
RECURSIVE InstitutionLoop(_, _, _)
InstitutionLoop(institutions, i, st) ==
    IF i > Len(institutions) THEN st
    ELSE LET inst_lower == TextLower(institutions[i])
             next ==
                 IF \E term \in AcademicGovTerms : TextContains(inst_lower, term)
                 THEN [ inst_score |-> RMax(st.inst_score, R(8, 10)),
                        rule_applied |-> "academic_gov_institution" ]
                 ELSE IF \E term \in CorporateTerms : TextContains(inst_lower, term)
                 THEN [ inst_score |-> RMax(st.inst_score, R(6, 10)),
                        rule_applied |-> "corporate_institution" ]
                 ELSE [ inst_score |-> RMax(st.inst_score, R(4, 10)),
                        rule_applied |-> st.rule_applied ]
         IN  InstitutionLoop(institutions, i + 1, next)

HasCredentials(author) == \E title \in CredentialTitles : Contains(author, title)

\* _calculate_authority_score
calculate_authority_score(provenance) ==
    LET inst == InstitutionLoop(provenance.institutions, 1,
                    [ inst_score |-> RZero, rule_applied |-> "institution_analysis" ])
        hasInst == provenance.institutions # <<>>
        score1 == IF hasInst THEN inst.inst_score ELSE R(5, 10)
        rule1 == IF hasInst THEN inst.rule_applied ELSE "default_neutral"
        dims1 == IF hasInst THEN [ institution_authority |-> inst.inst_score ]
                 ELSE [ k \in {} |-> RZero ]
        multi == Len(provenance.authors) > 1
        score2 == IF multi THEN RMax(score1, R(7, 10)) ELSE score1
        rule2 == IF multi THEN "multiple_authors" ELSE rule1
        dims2 == IF multi THEN [ multiple_authors |-> R(7, 10) ] @@ dims1 ELSE dims1
        cred == \E i \in 1..Len(provenance.authors) : HasCredentials(provenance.authors[i])
        score3 == IF cred THEN RMax(score2, R(8, 10)) ELSE score2
        rule3 == IF cred THEN "author_with_credentials" ELSE rule2
        dims3 == IF cred THEN [ author_credentials |-> R(8, 10) ] @@ dims2 ELSE dims2
    IN  TrustScore(score3, R(7, 10), dims3,
                   <<"Authority score based on", rule3, "Authors:",
                     Len(provenance.authors), "Institutions:",
                     Len(provenance.institutions)>>,
                   rule3)

DocumentTypeDefaultScores ==
    [ research_paper |-> R(9, 10), technical_report |-> R(8, 10),
      government_document |-> R(85, 100), conference_paper |-> R(7, 10),
      thesis |-> R(8, 10), patent |-> R(75, 100), standard |-> R(85, 100),
      newspaper_article |-> R(6, 10), preprint |-> R(5, 10),
      blog_post |-> R(3, 10), wikipedia_entry |-> R(5, 10),
      legal_document |-> R(7, 10), unknown |-> R(4, 10) ]

\* (self.rules or {}).get(key) or {}
ConfiguredTable(engine_rules, key) ==
    LET t == Get(engine_rules, key)
    IN  IF TruthyDict(t) THEN The(t) ELSE [ k \in {} |-> RZero ]

\* a lookup that asks the built-in table first
TableLookup_builtin_first(configured, default_scores, value) ==
    IF value \in DOMAIN default_scores THEN default_scores[value]
    ELSE IF value \in DOMAIN configured THEN configured[value]
    ELSE R(5, 10)

\* configured.get(value, default_scores.get(value, 0.5))
TableLookup(configured, default_scores, value) ==
    IF value \in DOMAIN configured THEN configured[value]
    ELSE IF value \in DOMAIN default_scores THEN default_scores[value]
    ELSE R(5, 10)

\* _calculate_document_type_score
calculate_document_type_score(engine_rules, provenance) ==
    LET configured == ConfiguredTable(engine_rules, "document_type_scores")
        doc_type == IF provenance.document_type = NONE THEN "unknown"
                    ELSE provenance.document_type
        score == TableLookup(configured, DocumentTypeDefaultScores, doc_type)
    IN  TrustScore(score, R(9, 10), [ document_type |-> score ],
                   <<"Document type", doc_type, "has trust score", score>>,
                   "document_type_mapping")

ReviewDefaultScores ==
    [ peer_reviewed |-> R(9, 10), editor_reviewed |-> R(7, 10),
      self_published |-> R(4, 10), unreviewed |-> R(3, 10) ]

\* _calculate_review_score
calculate_review_score(engine_rules, provenance) ==
    LET configured == ConfiguredTable(engine_rules, "review_scores")
        review_status == IF provenance.review_status = NONE THEN "unreviewed"
                         ELSE provenance.review_status
        score == TableLookup(configured, ReviewDefaultScores, review_status)
    IN  TrustScore(score, R(8, 10), [ review_status |-> score ],
                   <<"review_status", review_status, "contributes score", score>>,
                   "review_status_mapping")

\* mutant: the buckets test the age with < instead of <=
CurrencyBucket_exclusive(age) ==
    IF age < 1 THEN [ score |-> R(9, 10), rule_applied |-> "very_recent" ]
    ELSE IF age < 3 THEN [ score |-> R(8, 10), rule_applied |-> "recent" ]
    ELSE IF age < 5 THEN [ score |-> R(5, 10), rule_applied |-> "moderately_old" ]
    ELSE IF age < 10 THEN [ score |-> R(4, 10), rule_applied |-> "old" ]
    ELSE [ score |-> R(4, 10), rule_applied |-> "historical" ]

\* the if/elif chain on age
CurrencyBucket(age) ==
    IF age <= 1 THEN [ score |-> R(9, 10), rule_applied |-> "very_recent" ]
    ELSE IF age <= 3 THEN [ score |-> R(8, 10), rule_applied |-> "recent" ]
    ELSE IF age <= 5 THEN [ score |-> R(5, 10), rule_applied |-> "moderately_old" ]
    ELSE IF age <= 10 THEN [ score |-> R(4, 10), rule_applied |-> "old" ]
    ELSE [ score |-> R(4, 10), rule_applied |-> "historical" ]

\* _calculate_currency_score; current_year is datetime.now(timezone.utc).year
calculate_currency_score(provenance, current_year) ==
    IF IsSome(provenance.publication_date)
    THEN LET publication_year == The(provenance.publication_date).year
             age == current_year - publication_year
             b == CurrencyBucket(age)
         IN  TrustScore(b.score, R(6, 10), [ currency |-> b.score ],
                        <<"Document is", age, "years old", publication_year>>,
                        b.rule_applied)
    ELSE TrustScore(R(5, 10), R(3, 10), [ currency |-> R(5, 10) ],
                    <<"No publication date available">>, "no_date")

\* bool(x) of a content_metadata.get(key) result
TruthyFlag(o) == IsSome(o) /\ The(o) = TRUE

\* the completeness score as the sum of the factors, not their mean
calculate_completeness_score_sum(provenance, content_metadata) ==
    LET present_fields ==
            (IF provenance.authors # <<>> THEN 1 ELSE 0)
          + (IF provenance.title \notin {NONE, ""} THEN 1 ELSE 0)
          + (IF IsSome(provenance.publication_date) THEN 1 ELSE 0)
          + (IF provenance.institutions # <<>> THEN 1 ELSE 0)
        total_fields == 4
        f1 == [ provenance_fields |-> R(present_fields, total_fields) ]
        f2 == IF TruthyFlag(Get(content_metadata, "has_references"))
              THEN [ has_references |-> R(8, 10) ] @@ f1 ELSE f1
        completeness_factors ==
              IF TruthyFlag(Get(content_metadata, "has_citations"))
              THEN [ has_citations |-> R(7, 10) ] @@ f2 ELSE f2
        n == Cardinality(DOMAIN completeness_factors)
        score == IF n > 0
                 THEN RSum(completeness_factors, DOMAIN completeness_factors)
                 ELSE R(5, 10)
    IN  TrustScore(score, R(7, 10), completeness_factors,
                   <<"Completeness based on", n, "factors. Provenance fields:",
                     present_fields, total_fields>>,
                   "completeness_analysis")

\* the completeness score without lines 244-245, the has_citations factor
calculate_completeness_score_without_citations(provenance, content_metadata) ==
    LET present_fields ==
            (IF provenance.authors # <<>> THEN 1 ELSE 0)
          + (IF provenance.title \notin {NONE, ""} THEN 1 ELSE 0)
          + (IF IsSome(provenance.publication_date) THEN 1 ELSE 0)
          + (IF provenance.institutions # <<>> THEN 1 ELSE 0)
        total_fields == 4
        f1 == [ provenance_fields |-> R(present_fields, total_fields) ]
        completeness_factors ==
              IF TruthyFlag(Get(content_metadata, "has_references"))
              THEN [ has_references |-> R(8, 10) ] @@ f1 ELSE f1
        n == Cardinality(DOMAIN completeness_factors)
        score == IF n > 0
                 THEN RDiv(RSum(completeness_factors, DOMAIN completeness_factors), R(n, 1))
                 ELSE R(5, 10)
    IN  TrustScore(score, R(7, 10), completeness_factors,
                   <<"Completeness based on", n, "factors. Provenance fields:",
                     present_fields, total_fields>>,
                   "completeness_analysis")

\* _calculate_completeness_score
calculate_completeness_score(provenance, content_metadata) ==
    LET present_fields ==
            (IF provenance.authors # <<>> THEN 1 ELSE 0)
          + (IF provenance.title \notin {NONE, ""} THEN 1 ELSE 0)
          + (IF IsSome(provenance.publication_date) THEN 1 ELSE 0)
          + (IF provenance.institutions # <<>> THEN 1 ELSE 0)
        total_fields == 4
        f1 == [ provenance_fields |-> R(present_fields, total_fields) ]
        f2 == IF TruthyFlag(Get(content_metadata, "has_references"))
              THEN [ has_references |-> R(8, 10) ] @@ f1 ELSE f1
        completeness_factors ==
              IF TruthyFlag(Get(content_metadata, "has_citations"))
              THEN [ has_citations |-> R(7, 10) ] @@ f2 ELSE f2
        n == Cardinality(DOMAIN completeness_factors)
        score == IF n > 0
                 THEN RDiv(RSum(completeness_factors, DOMAIN completeness_factors), R(n, 1))
                 ELSE R(5, 10)
    IN  TrustScore(score, R(7, 10), completeness_factors,
                   <<"Completeness based on", n, "factors. Provenance fields:",
                     present_fields, total_fields>>,
                   "completeness_analysis")

\* the weight map in force: (self.rules or {}).get("weights") or {built-in}
WeightsInForce(engine_rules) ==
    LET w == Get(engine_rules, "weights")
    IN  IF TruthyDict(w) THEN The(w) ELSE BuiltinWeights

\* the `scores` dict of _calculate_overall_score
OverallScores(trust_block) ==
    [ authority |-> trust_block.authority_score.score,
      document_type |-> trust_block.document_type_score.score,
      review |-> trust_block.review_score.score,
      currency |-> trust_block.currency_score.score,
      completeness |-> trust_block.completeness_score.score ]

\* mutant: the weights are dropped from the sum
WeightedSum_unweighted(scores, weights) ==
    RSum([ dim \in DOMAIN weights |-> scores[dim] ], DOMAIN weights)

\* sum(scores[dim] * weight for dim, weight in weights.items())
WeightedSum(scores, weights) ==
    RSum([ dim \in DOMAIN weights |-> RMul(scores[dim], weights[dim]) ], DOMAIN weights)

\* _calculate_overall_score: the TrustScore, or the exception it raises
calculate_overall_score(engine_rules, trust_block) ==
    LET weights == WeightsInForce(engine_rules)
        scores == OverallScores(trust_block)
        total_weight == RSum(weights, DOMAIN weights)
        confidences ==
            << trust_block.authority_score.confidence,
               trust_block.document_type_score.confidence,
               trust_block.review_score.confidence,
               trust_block.currency_score.confidence,
               trust_block.completeness_score.confidence >>
        overall_confidence ==
            RDiv(RSum(confidences, 1..Len(confidences)), R(Len(confidences), 1))
    IN  IF ~(DOMAIN weights \subseteq DOMAIN scores)
        THEN [ raised |-> "KeyError", value |-> Nothing ]
        ELSE IF total_weight = RZero
        THEN [ raised |-> "ZeroDivisionError", value |-> Nothing ]
        ELSE [ raised |-> NONE,
               value |-> Some(TrustScore(RDiv(WeightedSum(scores, weights), total_weight),
                                         overall_confidence, scores,
                                         <<"Overall trust score calculated as weighted average of:",
                                           DOMAIN weights>>,
                                         "weighted_average")) ]

\* calculate_trust_scores: the TrustBlock, or the exception that escapes
calculate_trust_scores(engine_rules, provenance, content_metadata, current_year) ==
    LET dims ==
            [ authority_score |-> calculate_authority_score(provenance),
              document_type_score |-> calculate_document_type_score(engine_rules, provenance),
              review_score |-> calculate_review_score(engine_rules, provenance),
              currency_score |-> calculate_currency_score(provenance, current_year),
              completeness_score |-> calculate_completeness_score(provenance, content_metadata) ]
        overall == calculate_overall_score(engine_rules, dims)
    IN  IF overall.raised # NONE
        THEN [ raised |-> overall.raised, trust |-> Nothing ]
        ELSE [ raised |-> NONE,
               trust |-> Some([ overall_score |-> overall.value ] @@
                              [ k \in DOMAIN dims |-> Some(dims[k]) ]) ]

(***************************************************************************)
(* Inputs of the scoring engine                                            *)
(***************************************************************************)
MaxAge == 11
MaxTicks == 1
BaseYear == 2026

\* a datetime, by the fields the code reads
Date(y, m, d) == [ year |-> y, month |-> m, day |-> d ]

ProvenanceBlock(doc_type, title, authors, institutions, pub_date, review, citation) ==
    [ document_type |-> doc_type, title |-> title, authors |-> authors,
      institutions |-> institutions, publication_date |-> pub_date,
      retrieved_date |-> Nothing, review_status |-> review, citation |-> citation ]

AuthorLists ==
    { <<>>, <<"Jane Smith">>, <<"Dr. John Doe">>, <<"Jane Smith", "Dr. John Doe">>,
      <<"Jane Smith", "Jane Smith">> }

InstitutionNames ==
    { <<"Stanford University">>, <<"Acme Corp">>, <<"NIH">>, <<"University Press Inc.">> }

Titles == { NONE, "Research Paper on AI Ethics" }

AllDates == { Nothing } \cup { Some(Date(y, 6, 15)) : y \in (BaseYear - MaxAge)..(BaseYear + 1) }

ContentMetadatas ==
    { [ k \in {} |-> TRUE ],
      [ has_references |-> TRUE, has_citations |-> FALSE, word_count |-> TRUE ],
      [ has_references |-> FALSE, has_citations |-> TRUE, word_count |-> TRUE ],
      [ has_references |-> TRUE, has_citations |-> TRUE, word_count |-> TRUE ] }

\* provenances that vary every field the five dimensions read
ScoreProvenances ==
    { ProvenanceBlock(dt, t, a, i, pd, rs, NONE) :
        dt \in { NONE, "research_paper", "blog_post", "government_document" },
        t \in Titles,
        a \in { <<>>, <<"Jane Smith">>, <<"Jane Smith", "Dr. John Doe">> },
        i \in { <<>>, << <<"Stanford University">> >>, << <<"Acme Corp">> >>,
                 << <<"NIH">>, <<"Acme Corp">> >> },
        pd \in { Nothing, Some(Date(BaseYear, 6, 15)), Some(Date(BaseYear - 4, 6, 15)),
                 Some(Date(BaseYear - MaxAge, 6, 15)) },
        rs \in { NONE, "peer_reviewed", "self_published" } }

\* provenances that vary the authors and the institutions
AuthorityProvenances ==
    { ProvenanceBlock(dt, NONE, a, i, Nothing, NONE, NONE) :
        dt \in { NONE, "research_paper" },
        a \in AuthorLists,
        i \in { <<>> } \cup { <<x>> : x \in InstitutionNames }
               \cup { <<x, y>> : x \in InstitutionNames, y \in InstitutionNames } }

\* provenances that vary the publication date
CurrencyProvenances ==
    { ProvenanceBlock(dt, t, <<>>, <<>>, pd, rs, NONE) :
        dt \in { NONE, "research_paper" }, t \in Titles, pd \in AllDates,
        rs \in { NONE, "peer_reviewed" } }

\* rules_config arguments: None, the test suite's custom rules, authority only
RulesConfigs ==
    { Nothing,
      Some([ weights |-> [ authority |-> R(5, 10), document_type |-> R(3, 10),
                           review |-> R(2, 10), currency |-> RZero,
                           completeness |-> RZero ],
             document_type_scores |-> [ research_paper |-> R(1, 1),
                                        blog_post |-> R(1, 10) ] ]),
      Some([ weights |-> [ authority |-> R(1, 1), document_type |-> RZero,
                           review |-> RZero, currency |-> RZero,
                           completeness |-> RZero ] ]) }

(***************************************************************************)
(* The scoring engine as a state machine                                   *)
(***************************************************************************)
\* no policy engine call is under study
IdlePolicy == policy_args = Nothing /\ policy_call = Nothing

\* an engine built from one of `configs`, about to be called on one of `provenances`
InitScoreOver(configs, provenances) ==
    /\ \E c \in configs : rules = TrustScoringEngine_init(c)
    /\ now_year = BaseYear
    /\ ticks = 0
    /\ \E provenance \in provenances, content_metadata \in ContentMetadatas :
           score_args = [ provenance |-> provenance,
                          content_metadata |-> content_metadata ]
    /\ score_call = Nothing
    /\ IdlePolicy
    /\ IdleInfer
    /\ IdleApi
    /\ IdleCache

\* one call of calculate_trust_scores on the engine
CalculateTrustScores ==
    /\ score_call' = Some([ now_year |-> now_year,
                            result |-> calculate_trust_scores(rules,
                                           score_args.provenance,
                                           score_args.content_metadata, now_year) ])
    /\ UNCHANGED <<rules, now_year, ticks, score_args, policyVars, inferVars, apiVars, cacheVars>>

\* the calendar year changes between two calls
Tick ==
    /\ ticks < MaxTicks
    /\ now_year' = now_year + 1
    /\ ticks' = ticks + 1
    /\ UNCHANGED <<rules, score_args, score_call, policyVars, inferVars, apiVars, cacheVars>>

NextScore == CalculateTrustScores \/ Tick

SpecScore == InitScoreOver(RulesConfigs, ScoreProvenances) /\ [][NextScore]_vars
SpecAuthority == InitScoreOver({Nothing}, AuthorityProvenances) /\ [][NextScore]_vars
SpecCurrency == InitScoreOver({Nothing}, CurrencyProvenances) /\ [][NextScore]_vars

(***************************************************************************)
(* policy/ai_policy_engine.py                                              *)
(***************************************************************************)
\* bool(s) of an Optional text: neither None nor the empty string
TruthyText(o) == IsSome(o) /\ The(o) # <<>>

\* AIUseBlock(): the dataclass defaults
AIUseBlock ==
    [ license |-> NONE, attribution_required |-> FALSE,
      commercial_use_allowed |-> TRUE, allowed_actions |-> <<>>,
      prohibited_actions |-> <<>>, attribution_text |-> Nothing,
      conditions |-> <<>> ]

\* mutant: THESIS is missing from the academic types
infer_license_no_thesis(provenance, trust) ==
    LET doc_type == provenance.document_type
    IN  IF doc_type = "government_document" THEN "public_domain"
        ELSE IF doc_type \in { "research_paper", "conference_paper", "preprint" }
        THEN IF TruthyText(provenance.citation)
                /\ TextContains(The(provenance.citation), "arXiv")
             THEN "CC-BY"
             ELSE "copyrighted"
        ELSE IF doc_type \in { "technical_report", "standard" } THEN "copyrighted"
        ELSE "unknown"

\* _infer_license
infer_license(provenance, trust) ==
    LET doc_type == provenance.document_type
    IN  IF doc_type = "government_document" THEN "public_domain"
        ELSE IF doc_type \in { "research_paper", "conference_paper", "thesis", "preprint" }
        THEN IF TruthyText(provenance.citation)
                /\ TextContains(The(provenance.citation), "arXiv")
             THEN "CC-BY"
             ELSE "copyrighted"
        ELSE IF doc_type \in { "technical_report", "standard" } THEN "copyrighted"
        ELSE "unknown"

\* mutant: the threshold is exclusive
HighTrust_strict(trust) ==
    IsSome(trust.overall_score) /\ RLess(R(7, 10), The(trust.overall_score).score)

\* trust.overall_score and trust.overall_score.score >= 0.7
HighTrust(trust) ==
    IsSome(trust.overall_score) /\ RLeq(R(7, 10), The(trust.overall_score).score)

\* mutant: copyrighted material only prohibits NO_TRAINING
set_permissions_no_overlap(ai_use, provenance, trust) ==
    LET base ==
            IF HighTrust(trust)
            THEN [ ai_use EXCEPT
                     !.allowed_actions = @ \o <<"allowed", "attribution_required">>,
                     !.commercial_use_allowed = TRUE ]
            ELSE [ ai_use EXCEPT
                     !.allowed_actions = Append(@, "allowed"),
                     !.commercial_use_allowed = FALSE,
                     !.prohibited_actions = Append(@, "non_commercial_only") ]
    IN  IF ai_use.license = "copyrighted"
        THEN [ base EXCEPT
                 !.allowed_actions = Append(@, "attribution_required"),
                 !.prohibited_actions = @ \o <<"no_training", "no_quoting">> ]
        ELSE base

\* _set_permissions
set_permissions(ai_use, provenance, trust) ==
    LET base ==
            IF HighTrust(trust)
            THEN [ ai_use EXCEPT
                     !.allowed_actions = @ \o <<"allowed", "attribution_required">>,
                     !.commercial_use_allowed = TRUE ]
            ELSE [ ai_use EXCEPT
                     !.allowed_actions = Append(@, "allowed"),
                     !.commercial_use_allowed = FALSE,
                     !.prohibited_actions = Append(@, "non_commercial_only") ]
    IN  IF ai_use.license = "CC-BY-NC"
        THEN [ base EXCEPT
                 !.commercial_use_allowed = FALSE,
                 !.prohibited_actions = Append(@, "non_commercial_only"),
                 !.allowed_actions = Append(@, "attribution_required") ]
        ELSE IF ai_use.license = "copyrighted"
        THEN [ base EXCEPT
                 !.allowed_actions = @ \o <<"attribution_required", "no_training">>,
                 !.prohibited_actions = @ \o <<"no_training", "no_quoting">> ]
        ELSE IF ai_use.license = "public_domain"
        THEN [ base EXCEPT
                 !.allowed_actions = @ \o <<"allowed", "attribution_required">>,
                 !.commercial_use_allowed = TRUE ]
        ELSE base

\* "; ".join(authors)
RECURSIVE JoinAuthors(_)
JoinAuthors(authors) ==
    IF authors = <<>> THEN <<>>
    ELSE IF Len(authors) = 1 THEN <<authors[1]>>
    ELSE <<authors[1], "; ">> \o JoinAuthors(Tail(authors))

\* provenance.publication_date.year if provenance.publication_date else "n.d."
YearOrNd(publication_date) ==
    IF IsSome(publication_date) THEN ToString(The(publication_date).year) ELSE "n.d."

\* f"{authors} ({year}). {title}" over the first three authors
FormatAttribution(provenance) ==
    JoinAuthors(SubSeq(provenance.authors, 1, IF Len(provenance.authors) < 3
                                                 THEN Len(provenance.authors) ELSE 3))
    \o <<" (", YearOrNd(provenance.publication_date), "). ", provenance.title>>

\* bool(provenance.title)
TruthyTitle(title) == title \notin { NONE, "" }

\* mutant: the synthesized text is preferred over the citation
set_attribution_synth_first(ai_use, provenance, trust) ==
    LET text ==
            IF TruthyTitle(provenance.title) /\ provenance.authors # <<>>
            THEN Some(FormatAttribution(provenance))
            ELSE IF TruthyText(provenance.citation) THEN provenance.citation
            ELSE ai_use.attribution_text
    IN  IF ai_use.license = "public_domain"
        THEN [ ai_use EXCEPT !.attribution_required = FALSE,
                             !.attribution_text = Nothing ]
        ELSE [ ai_use EXCEPT !.attribution_required = TRUE,
                             !.attribution_text = text ]

\* _set_attribution
set_attribution(ai_use, provenance, trust) ==
    LET text ==
            IF TruthyText(provenance.citation) THEN provenance.citation
            ELSE IF TruthyTitle(provenance.title) /\ provenance.authors # <<>>
            THEN Some(FormatAttribution(provenance))
            ELSE ai_use.attribution_text
    IN  IF ai_use.license = "public_domain"
        THEN [ ai_use EXCEPT !.attribution_required = FALSE,
                             !.attribution_text = Nothing ]
        ELSE [ ai_use EXCEPT !.attribution_required = TRUE,
                             !.attribution_text = text ]

\* _set_conditions
set_conditions(ai_use, provenance, trust) ==
    LET c1 == IF IsSome(trust.overall_score)
                 /\ RLess(The(trust.overall_score).score, R(5, 10))
              THEN <<"Use with caution: low trust score">> ELSE <<>>
        c2 == IF ai_use.license = "CC-BY" THEN <<"Must provide attribution">>
              ELSE IF ai_use.license = "CC-BY-NC"
              THEN <<"Non-commercial use only", "Must provide attribution">>
              ELSE IF ai_use.license = "copyrighted"
              THEN <<"Copyrighted material - check specific license">>
              ELSE <<>>
        c3 == IF provenance.review_status # NONE /\ provenance.review_status = "preprint"
              THEN <<"Preprint - not peer reviewed">> ELSE <<>>
    IN  [ ai_use EXCEPT !.conditions = c1 \o c2 \o c3 ]

\* determine_policy
determine_policy(provenance, trust) ==
    LET a0 == [ AIUseBlock EXCEPT !.license = infer_license(provenance, trust) ]
        a1 == set_permissions(a0, provenance, trust)
        a2 == set_attribution(a1, provenance, trust)
    IN  set_conditions(a2, provenance, trust)

(***************************************************************************)
(* Inputs of the policy engine                                             *)
(***************************************************************************)
Citations ==
    { Nothing, Some(<<>>),
      Some(<<"Smith, J. (2023). Deep Nets. arXiv:2301.00001">>),
      Some(<<"Smith, J. (2023). Deep Nets. Journal of AI">>),
      Some(<<"Smith, J. (2023). Deep Nets. arxiv.org">>) }

PolicyProvenances ==
    { ProvenanceBlock(dt, t, a, <<>>, pd, rs, c) :
        dt \in DocumentType \cup {NONE}, t \in Titles,
        a \in { <<>>, <<"Jane Smith">>,
                <<"Jane Smith", "Dr. John Doe", "Jane Smith", "Dr. John Doe">> },
        pd \in { Nothing, Some(Date(BaseYear - 3, 6, 15)) },
        rs \in { NONE, "unreviewed" }, c \in Citations }

\* trust.overall_score.score values on both sides of the thresholds 0.5 and 0.7
TrustLevels == { R(0, 1), R(4, 10), R(49, 100), R(5, 10), R(69, 100), R(7, 10),
                 R(71, 100), R(1, 1) }

PolicyTrusts ==
    { [ overall_score |-> Nothing ] }
    \cup { [ overall_score |-> Some(TrustScore(r, R(7, 10), <<>>, <<>>, "weighted_average")) ] :
             r \in TrustLevels }

(***************************************************************************)
(* The policy engine as a state machine                                    *)
(***************************************************************************)
IdleScore ==
    /\ rules = get_default_rules
    /\ now_year = BaseYear
    /\ ticks = 0
    /\ score_args = Nothing
    /\ score_call = Nothing

InitPolicy ==
    /\ IdleScore
    /\ \E provenance \in PolicyProvenances, trust \in PolicyTrusts :
           policy_args = Some([ provenance |-> provenance, trust |-> trust ])
    /\ policy_call = Nothing
    /\ IdleInfer
    /\ IdleApi
    /\ IdleCache

\* one call of determine_policy
DeterminePolicy ==
    /\ policy_call' = Some(determine_policy(The(policy_args).provenance,
                                            The(policy_args).trust))
    /\ UNCHANGED <<scoreVars, policy_args, inferVars, apiVars, cacheVars>>

NextPolicy == DeterminePolicy

SpecPolicy == InitPolicy /\ [][NextPolicy]_vars

(***************************************************************************)
(* inference/provenance_inferencer.py                                      *)
(* A content string is the text of its lines and of the separators "\n"    *)
(* and "\n\n" between them.  A metadata value is None, a str or a dict.    *)
(* A call that raises is a result whose `raised` names the exception.      *)
(***************************************************************************)
PyNone == [ kind |-> "none" ]
PyStr(s) == [ kind |-> "str", s |-> s ]
\* a number, and a datetime at midnight of the date (str(value)[:10] keeps the date)
PyNum(n) == [ kind |-> "num", n |-> n ]
PyDatetime(date) == [ kind |-> "datetime", date |-> date ]
PyDict(d) == [ kind |-> "dict", d |-> d ]

\* bool(v) of a metadata value
Truthy(v) ==
    \/ (v.kind = "str" /\ v.s # "")
    \/ (v.kind = "dict" /\ DOMAIN v.d # {})
    \/ (v.kind = "num" /\ v.n # 0)
    \/ v.kind = "datetime"

\* dict.get(key, default)
DictGet(dict, key, default) == IF key \in DOMAIN dict THEN dict[key] ELSE default

\* seq[:n]
FirstN(seq, n) == SubSeq(seq, 1, IF Len(seq) < n THEN Len(seq) ELSE n)

\* len(text)
RECURSIVE TextLen(_)
TextLen(text) == IF text = <<>> THEN 0 ELSE Len(text[1]) + TextLen(Tail(text))

\* text[:n], for the texts of at most n characters that the inputs are made of
Prefix(text, n) == text

\* content.split("\n")
RECURSIVE SplitLines(_)
SplitLines(content) ==
    IF content = <<>> THEN <<"">>
    ELSE IF Len(content) = 1 THEN <<content[1]>>
    ELSE <<content[1]>> \o (IF content[2] = "\n\n" THEN <<"">> ELSE <<>>)
         \o SplitLines(SubSeq(content, 3, Len(content)))

\* content.split("\n\n")
RECURSIVE SplitParagraphs(_)
SplitParagraphs(content) ==
    IF \A i \in DOMAIN content : content[i] # "\n\n" THEN <<content>>
    ELSE LET k == CHOOSE i \in DOMAIN content :
                      content[i] = "\n\n" /\ \A j \in 1..(i - 1) : content[j] # "\n\n"
         IN  <<SubSeq(content, 1, k - 1)>>
             \o SplitParagraphs(SubSeq(content, k + 1, Len(content)))

\* para.strip() of a paragraph whose first and last lines are not blank
TextStrip(text) ==
    IF text = <<>> THEN <<>>
    ELSE IF Len(text) = 1 THEN <<Strip(text[1])>>
    ELSE <<LStrip(text[1])>> \o SubSeq(text, 2, Len(text) - 1) \o <<RStrip(text[Len(text)])>>

\* re.search(pattern, content, re.IGNORECASE): no pattern matches across a newline
SearchText(pattern, content) == \E i \in DOMAIN content : RegexSearch(pattern, content[i])

\* re.findall(pattern, content)
RECURSIVE FindallText(_, _)
FindallText(pattern, content) ==
    IF content = <<>> THEN <<>>
    ELSE RegexFindall(pattern, content[1]) \o FindallText(pattern, Tail(content))

\* any(term in text for term in terms)
AnyTermIn(terms, text) == \E term \in terms : TextContains(text, term)

Returned(value, source) == [ raised |-> NONE, value |-> value, source |-> source ]
Raised(exception) == [ raised |-> exception, value |-> NONE, source |-> NONE ]

\* ProvenanceInferencer.__init__
ProvenanceInferencer_init ==
    [ inference_sources |-> <<>>, confidence_scores |-> <<>>, warnings |-> <<>> ]

ThesisKeywords == { "thesis", "dissertation", "phd" }
legal_terms == { "case no", "v.", "plaintiff", "defendant", "court", "legal" }

\* lines 119-124: the keywords of metadata["pdf_metadata"]
PdfKeywordsStep(metadata) ==
    IF "pdf_metadata" \notin DOMAIN metadata THEN "pass"
    ELSE LET pdf_meta == metadata["pdf_metadata"]
         IN  IF pdf_meta.kind # "dict" THEN "AttributeError"
             ELSE LET keywords == DictGet(pdf_meta.d, "keywords", PyStr(""))
                  IN  IF ~Truthy(keywords) THEN "pass"
                      ELSE IF keywords.kind # "str" THEN "AttributeError"
                      ELSE IF Contains(Lower(keywords.s), "patent") THEN "patent"
                      ELSE "pass"

\* lines 127-133: metadata.get("filename", "").lower()
FilenameStep(metadata) ==
    LET filename == DictGet(metadata, "filename", PyStr(""))
    IN  IF filename.kind # "str" THEN Raised("AttributeError")
        ELSE IF Contains(Lower(filename.s), "report")
        THEN Returned("technical_report", "filename_pattern")
        ELSE IF Contains(Lower(filename.s), "patent")
        THEN Returned("patent", "filename_pattern")
        ELSE Returned("unknown", "no_strong_indicators")

\* mutant: the DOI is looked for before the arXiv identifier
infer_document_type_doi_first(content, metadata) ==
    LET text_lower == TextLower(content)
    IN  IF SearchText("DOI_PATTERN", content)
        THEN IF AnyTermIn(ThesisKeywords, text_lower)
             THEN Returned("thesis", "doi_with_thesis_keywords")
             ELSE Returned("research_paper", "doi_detected")
        ELSE IF SearchText("ARXIV_PATTERN", content)
        THEN Returned("preprint", "arxiv_id_detected")
        ELSE IF AnyTermIn(legal_terms, text_lower)
        THEN Returned("legal_document", "legal_terminology")
        ELSE IF PdfKeywordsStep(metadata) = "AttributeError" THEN Raised("AttributeError")
        ELSE IF PdfKeywordsStep(metadata) = "patent" THEN Returned("patent", "pdf_keywords")
        ELSE FilenameStep(metadata)

\* _infer_document_type
infer_document_type(content, metadata) ==
    LET text_lower == TextLower(content)
    IN  IF SearchText("ARXIV_PATTERN", content)
        THEN Returned("preprint", "arxiv_id_detected")
        ELSE IF SearchText("DOI_PATTERN", content)
        THEN IF AnyTermIn(ThesisKeywords, text_lower)
             THEN Returned("thesis", "doi_with_thesis_keywords")
             ELSE Returned("research_paper", "doi_detected")
        ELSE IF AnyTermIn(legal_terms, text_lower)
        THEN Returned("legal_document", "legal_terminology")
        ELSE IF PdfKeywordsStep(metadata) = "AttributeError" THEN Raised("AttributeError")
        ELSE IF PdfKeywordsStep(metadata) = "patent" THEN Returned("patent", "pdf_keywords")
        ELSE FilenameStep(metadata)

\* the first of first_lines[:10] that is not blank and carries an author label
RECURSIVE AuthorLine(_, _)
AuthorLine(first_lines, i) ==
    IF i > Len(first_lines) \/ i > 10 THEN Nothing
    ELSE LET line_stripped == Strip(first_lines[i])
         IN  IF line_stripped # "" /\ RegexSearch("author_label", Lower(line_stripped))
             THEN Some(line_stripped)
             ELSE AuthorLine(first_lines, i + 1)

\* _infer_authors; the inputs give an author field a str or None
infer_authors(content, metadata) ==
    LET author == DictGet(metadata, "author", PyNone)
        from_field == IF Truthy(author) THEN <<author.s>> ELSE <<>>
        has_pdf == "pdf_metadata" \in DOMAIN metadata
        pdf_author == DictGet(metadata["pdf_metadata"].d, "author", PyNone)
        add_pdf == has_pdf /\ Truthy(pdf_author)
                   /\ \A i \in DOMAIN from_field : from_field[i] # pdf_author.s
        from_meta == IF add_pdf THEN Append(from_field, pdf_author.s) ELSE from_field
        meta_source == IF add_pdf THEN "pdf_metadata"
                       ELSE IF Truthy(author) THEN "metadata_author_field"
                       ELSE "metadata_extraction"
        found == AuthorLine(SplitLines(Prefix(content, 1000)), 1)
    IN  IF has_pdf /\ metadata["pdf_metadata"].kind # "dict" THEN Raised("AttributeError")
        ELSE IF from_meta # <<>> THEN Returned(from_meta, meta_source)
        ELSE IF IsSome(found) THEN Returned(<<The(found)>>, "content_analysis")
        ELSE Returned(<<>>, meta_source)

institution_keywords ==
    { "university", "college", "institute", "laboratory", "lab", "center for",
      "department of", "school of", "corporation", "inc.", "ltd.", "gmbh",
      "government", "ministry", "agency" }

\* the list without the repetitions of its elements
RECURSIVE Dedup(_)
Dedup(list) ==
    IF list = <<>> THEN <<>>
    ELSE LET rest == Dedup(SubSeq(list, 1, Len(list) - 1))
             last == list[Len(list)]
         IN  IF \E i \in DOMAIN rest : rest[i] = last THEN rest ELSE Append(rest, last)

\* one order of the elements for each seed: the seed picks the first element,
\* then the quotient orders the others
RECURSIVE PermuteBy(_, _)
PermuteBy(list, seed) ==
    IF Len(list) <= 1 THEN list
    ELSE LET k == (seed % Len(list)) + 1
             others == SubSeq(list, 1, k - 1) \o SubSeq(list, k + 1, Len(list))
         IN  <<list[k]>> \o PermuteBy(others, seed \div Len(list))

\* list(set(institutions)): the iteration order of a set of str follows the
\* hashes of the strings, which the process draws from its seed: one order
\* within a process, any order from one process to the next
list_of_set(institutions, seed) == PermuteBy(Dedup(institutions), seed)

\* the paragraphs that name an institution keyword, stripped and cut
RECURSIVE KeywordMatches(_)
KeywordMatches(paragraphs) ==
    IF paragraphs = <<>> THEN <<>>
    ELSE LET para == paragraphs[1]
         IN  (IF AnyTermIn(institution_keywords, TextLower(para))
              THEN << Prefix(TextStrip(para), 100) >> ELSE <<>>)
             \o KeywordMatches(Tail(paragraphs))

\* the domains of the e-mail addresses that look like an institution's
RECURSIVE InstitutionDomains(_)
InstitutionDomains(emails) ==
    IF emails = <<>> THEN <<>>
    ELSE LET domain == EmailDomain(emails[1])
         IN  (IF \E edu \in { ".edu", ".ac.", ".gov" } : Contains(domain, edu)
              THEN << <<domain>> >> ELSE <<>>)
             \o InstitutionDomains(Tail(emails))

\* _infer_institutions
infer_institutions(content, metadata, seed) ==
    LET by_keyword == KeywordMatches(FirstN(SplitParagraphs(content), 5))
        by_email == InstitutionDomains(FirstN(FindallText("EMAIL_PATTERN", content), 5))
        source == IF by_email # <<>> THEN "email_domain_analysis"
                  ELSE IF by_keyword # <<>> THEN "keyword_matching"
                  ELSE "no_institutions_found"
    IN  Returned(list_of_set(by_keyword \o by_email, seed), source)

date_fields == <<"created", "modified", "creation_date", "modification_date">>
DATE_PATTERNS == <<"DATE_ISO", "DATE_US", "DATE_YEAR">>

\* lines 229-239: the first date field that is set and parses
RECURSIVE DateFromFields(_, _)
DateFromFields(metadata, i) ==
    IF i > Len(date_fields) THEN Nothing
    ELSE LET field == date_fields[i]
             parsed == IF field \in DOMAIN metadata /\ Truthy(metadata[field])
                       THEN IF metadata[field].kind = "str"
                            THEN FromIsoPrefix(metadata[field].s)
                            ELSE IF metadata[field].kind = "datetime"
                            THEN <<metadata[field].date>>
                            ELSE <<>>
                       ELSE <<>>
         IN  IF parsed # <<>> THEN Some(Returned(parsed, "metadata_" \o field))
             ELSE DateFromFields(metadata, i + 1)

\* lines 243-252: only a match of four characters becomes a date; datetime()
\* raises ValueError outside the years 1..9999
RECURSIVE DateFromContent(_, _)
DateFromContent(first_1000_chars, i) ==
    IF i > Len(DATE_PATTERNS) THEN Nothing
    ELSE LET matches == FindallText(DATE_PATTERNS[i], first_1000_chars)
         IN  IF matches # <<>> /\ Len(matches[1]) = 4 /\ ParseInt(matches[1]) \in 1..9999
             THEN Some(Returned(Some([ year |-> ParseInt(matches[1]), month |-> 1,
                                       day |-> 1 ]), "year_pattern_in_content"))
             ELSE DateFromContent(first_1000_chars, i + 1)

\* _infer_publication_date
infer_publication_date(content, metadata) ==
    IF IsSome(DateFromFields(metadata, 1)) THEN The(DateFromFields(metadata, 1))
    ELSE IF IsSome(DateFromContent(Prefix(content, 1000), 1))
    THEN The(DateFromContent(Prefix(content, 1000), 1))
    ELSE Returned(Nothing, "no_date_found")

\* _infer_title; the inputs give a title field a str or None
infer_title(content, metadata) ==
    LET title == DictGet(metadata, "title", PyNone)
        has_pdf == "pdf_metadata" \in DOMAIN metadata
        pdf_title == DictGet(metadata["pdf_metadata"].d, "title", PyNone)
        first_line == Strip(SplitLines(content)[1])
    IN  IF Truthy(title) THEN Returned(title.s, "metadata_title_field")
        ELSE IF has_pdf /\ metadata["pdf_metadata"].kind # "dict" THEN Raised("AttributeError")
        ELSE IF has_pdf /\ Truthy(pdf_title) THEN Returned(pdf_title.s, "pdf_metadata")
        ELSE IF Len(first_line) < 200 /\ Len(first_line) > 10
        THEN Returned(first_line, "first_line_extraction")
        ELSE Returned(NONE, "no_title_found")

\* _infer_review_status with the journal indicators cut to four, without "no."
infer_review_status_without_no(content, metadata, doc_type) ==
    LET text_lower == TextLower(content)
    IN  IF doc_type = "preprint" THEN Returned("unreviewed", "preprint_implication")
        ELSE IF AnyTermIn({ "peer-reviewed", "reviewed by", "refereed",
                            "this paper was reviewed" }, text_lower)
        THEN Returned("peer_reviewed", "explicit_peer_review_mention")
        ELSE IF AnyTermIn({ "journal of", "vol.", "pp.", "doi.org" }, text_lower)
        THEN Returned("peer_reviewed", "journal_formatting")
        ELSE IF AnyTermIn({ "posted on", "blog", "medium.com" }, text_lower)
        THEN Returned("self_published", "blog_formatting")
        ELSE Returned("unreviewed", "default_unreviewed")

\* _infer_review_status
infer_review_status(content, metadata, doc_type) ==
    LET text_lower == TextLower(content)
    IN  IF doc_type = "preprint" THEN Returned("unreviewed", "preprint_implication")
        ELSE IF AnyTermIn({ "peer-reviewed", "reviewed by", "refereed",
                            "this paper was reviewed" }, text_lower)
        THEN Returned("peer_reviewed", "explicit_peer_review_mention")
        ELSE IF AnyTermIn({ "journal of", "vol.", "no.", "pp.", "doi.org" }, text_lower)
        THEN Returned("peer_reviewed", "journal_formatting")
        ELSE IF AnyTermIn({ "posted on", "blog", "medium.com" }, text_lower)
        THEN Returned("self_published", "blog_formatting")
        ELSE Returned("unreviewed", "default_unreviewed")

\* _infer_citation without lines 323-324, the institution
infer_citation_without_institution(provenance) ==
    IF provenance.authors = <<>> \/ ~TruthyTitle(provenance.title)
    THEN Returned(Nothing, "insufficient_data")
    ELSE Returned(Some(JoinAuthors(FirstN(provenance.authors, 3))
                       \o <<" (", YearOrNd(provenance.publication_date), "). ",
                            provenance.title>>),
                  "generated_from_provenance")

\* _infer_citation
infer_citation(provenance) ==
    IF provenance.authors = <<>> \/ ~TruthyTitle(provenance.title)
    THEN Returned(Nothing, "insufficient_data")
    ELSE Returned(Some(JoinAuthors(FirstN(provenance.authors, 3))
                       \o <<" (", YearOrNd(provenance.publication_date), "). ",
                            provenance.title>>
                       \o (IF provenance.institutions # <<>>
                           THEN <<". ">> \o provenance.institutions[1] ELSE <<>>)),
                  "generated_from_provenance")

\* _record_inference, with the default confidence 0.5
record_inference(self, field, source) ==
    [ self EXCEPT !.inference_sources = Append(@, field \o ": " \o source),
                  !.confidence_scores = (field :> R(1, 2)) @@ @ ]

\* infer_from_metadata on the object `id` in state `self`: the result and the
\* state the call leaves the object in.  An exception leaves what was recorded
\* before it.  The trail of the result is the object's own list, not a copy.
infer_from_metadata(id, self, content, metadata, now, seed) ==
    LET doc_type == infer_document_type(content, metadata)
        self1 == record_inference(self, "document_type", doc_type.source)
        authors == infer_authors(content, metadata)
        self2 == record_inference(self1, "authors", authors.source)
        institutions == infer_institutions(content, metadata, seed)
        self3 == record_inference(self2, "institutions", institutions.source)
        pub_date == infer_publication_date(content, metadata)
        self4 == record_inference(self3, "publication_date", pub_date.source)
        title == infer_title(content, metadata)
        self5 == record_inference(self4, "title", title.source)
        review_status == infer_review_status(content, metadata, doc_type.value)
        self6 == record_inference(self5, "review_status", review_status.source)
        provenance == ProvenanceBlock(doc_type.value, title.value, authors.value,
                                      institutions.value, pub_date.value,
                                      review_status.value, Nothing)
        citation == infer_citation(provenance)
        self7 == record_inference(self6, "citation", citation.source)
        Failed(exception, left) ==
            [ raised |-> exception, self |-> left, provenance |-> Nothing,
              explainability |-> Nothing ]
    IN  IF doc_type.raised # NONE THEN Failed(doc_type.raised, self)
        ELSE IF authors.raised # NONE THEN Failed(authors.raised, self1)
        ELSE IF title.raised # NONE THEN Failed(title.raised, self4)
        ELSE [ raised |-> NONE, self |-> self7,
               provenance |-> Some([ provenance EXCEPT !.citation = citation.value,
                                                       !.retrieved_date = Some(now) ]),
               explainability |->
                   Some([ inference_sources |-> [ list_of |-> id ],
                          confidence_scores |-> self7.confidence_scores,
                          warnings |-> self7.warnings ]) ]

(***************************************************************************)
(* Inputs of the inferencer                                                *)
(***************************************************************************)
MaxLines == 2
MaxCalls == 2
HashSeeds == 2

Lines ==
    { "arXiv:2301.00001", "doi:10.1000/xyz123", "Doctoral Thesis", "Jane Roe, PhD",
      "Plaintiff v. Defendant", "Authors: Dr. Alice, Dr. Bob", "  Stanford University ",
      "Contact: alice@mit.edu", "This paper was peer-reviewed",
      "Posted on my blog, 2023-05-17", "Just some random text", "Abstract" }

RECURSIVE ContentsOfLines(_)
ContentsOfLines(n) ==
    IF n = 0 THEN { <<>> }
    ELSE IF n = 1 THEN { <<line>> : line \in Lines }
    ELSE { c \o <<sep, line>> :
             c \in ContentsOfLines(n - 1), sep \in { "\n", "\n\n" }, line \in Lines }

\* the contents of at most MaxLines lines; none is cut by [:100] or [:1000]
Contents ==
    { c \in UNION { ContentsOfLines(n) : n \in 0..MaxLines } : TextLen(c) <= 100 }

\* metadata records, well formed and malformed
Metadatas ==
    { <<>>,
      [ filename |-> PyStr("Annual_Report.pdf") ],
      [ filename |-> PyStr("patent_report.pdf") ],
      [ filename |-> PyStr("US_Patent_123.pdf") ],
      [ filename |-> PyStr("notes.txt"), author |-> PyStr("Jane Smith"),
        title |-> PyStr("Deep Nets"), created |-> PyStr("2020-03-04T10:00:00") ],
      [ filename |-> PyStr("Annual_Report.pdf"),
        pdf_metadata |-> PyDict([ keywords |-> PyStr("Patent; invention"),
                                  author |-> PyStr("Dr. John Doe"),
                                  title |-> PyStr("Deep Nets") ]) ],
      [ author |-> PyStr("Jane Smith"),
        pdf_metadata |-> PyDict([ keywords |-> PyStr("machine learning"),
                                  author |-> PyStr("Jane Smith") ]) ],
      [ pdf_metadata |-> PyDict(<<>>) ],
      [ created |-> PyStr("not a date"), modified |-> PyStr("2019-01-01") ],
      [ author |-> PyNone, title |-> PyNone, created |-> PyNone ],
      [ pdf_metadata |-> PyNone ],
      [ filename |-> PyNone ] }

InferInputs == { [ content |-> c, metadata |-> m ] : c \in Contents, m \in Metadatas }

\* the inputs whose repetition is studied: no, one and two institutions
StudyInputs ==
    { [ content |-> c, metadata |-> m ] :
        c \in { <<"Just some random text">>,
                <<"  Stanford University ", "\n\n", "Contact: alice@mit.edu">>,
                <<"Authors: Dr. Alice, Dr. Bob", "\n", "  Stanford University ">>,
                <<"Contact: alice@mit.edu", "\n\n", "  Stanford University ">>,
                <<"Contact: alice@mit.edu", "\n", "Contact: alice@mit.edu">> },
        m \in { <<>>,
                [ author |-> PyStr("Jane Smith"), title |-> PyStr("Deep Nets") ],
                [ pdf_metadata |-> PyNone ] } }

\* what the calls in between are made on
OtherInputs ==
    { [ content |-> <<"arXiv:2301.00001">>, metadata |-> <<>> ],
      [ content |-> <<"Contact: alice@mit.edu">>, metadata |-> [ filename |-> PyNone ] ] }

(***************************************************************************)
(* The inferencer as a state machine                                       *)
(***************************************************************************)
\* two inferencers, each in a process of its own or both in one, and the input
\* a caller is about to pass
InitInferOver(inputs, seeds) ==
    /\ IdleScore
    /\ IdlePolicy
    /\ inferencers = <<ProvenanceInferencer_init, ProvenanceInferencer_init>>
    /\ hash_seed \in [ DOMAIN inferencers -> seeds ]
    /\ clock = 0
    /\ infer_input \in inputs
    /\ infer_calls = <<>>
    /\ threads = <<>>
    /\ IdleApi
    /\ IdleCache

\* one call of infer_from_metadata on the inferencer `id`
InferFromMetadata(id, input) ==
    /\ Len(infer_calls) < MaxCalls
    /\ LET r == infer_from_metadata(id, inferencers[id], input.content,
                                    input.metadata, clock, hash_seed[id])
       IN  /\ inferencers' = [ inferencers EXCEPT ![id] = r.self ]
           /\ infer_calls' = Append(infer_calls,
                                    [ on |-> id, input |-> input, raised |-> r.raised,
                                      provenance |-> r.provenance,
                                      explainability |-> r.explainability ])
    /\ clock' = clock + 1
    /\ UNCHANGED <<hash_seed, infer_input, threads, scoreVars, policyVars, apiVars, cacheVars>>

\* the first call on a fresh inferencer
InferOnce == infer_calls = <<>> /\ InferFromMetadata(1, infer_input)

\* a call on the input under study
InferStudy == \E id \in DOMAIN inferencers : InferFromMetadata(id, infer_input)

\* a call on something else
InferOther ==
    \E id \in DOMAIN inferencers, input \in OtherInputs : InferFromMetadata(id, input)

NextInfer == InferOnce
NextInferSeq == InferStudy \/ InferOther

\* a single call, on every input; calls repeated, in one process or in two
SpecInfer == InitInferOver(InferInputs, {0}) /\ [][NextInfer]_vars
SpecInferSeq == InitInferOver(StudyInputs, 0..(HashSeeds - 1)) /\ [][NextInferSeq]_vars

(***************************************************************************)
(* Properties of the scoring engine                                        *)
(***************************************************************************)
\* the last call returned a TrustBlock
ScoreReturned(call) == IsSome(call) /\ The(call).result.raised = NONE
TrustOf(call) == The(The(call).result.trust)
AuthorityOf(call) == The(TrustOf(call).authority_score)
DocumentTypeOf(call) == The(TrustOf(call).document_type_score)
ReviewOf(call) == The(TrustOf(call).review_score)
CurrencyOf(call) == The(TrustOf(call).currency_score)
CompletenessOf(call) == The(TrustOf(call).completeness_score)
OverallOf(call) == The(TrustOf(call).overall_score)

\* sum over the five dimensions of score x weight, for a map on the five dimensions
FiveTermSum(call, w) ==
    RAdd(RMul(AuthorityOf(call).score, w.authority),
    RAdd(RMul(DocumentTypeOf(call).score, w.document_type),
    RAdd(RMul(ReviewOf(call).score, w.review),
    RAdd(RMul(CurrencyOf(call).score, w.currency),
         RMul(CompletenessOf(call).score, w.completeness)))))

FiveWeightTotal(w) ==
    RAdd(w.authority, RAdd(w.document_type, RAdd(w.review, RAdd(w.currency, w.completeness))))

AuthorityOnlyWeights ==
    [ authority |-> R(1, 1), document_type |-> RZero, review |-> RZero,
      currency |-> RZero, completeness |-> RZero ]

\* C1: the overall score of a returned TrustBlock is the weighted mean
\* sum(score x weight) / sum(weight) of the five dimension scores under the
\* weight map in force; an engine built without configuration uses the weights
\* 0.3, 0.2, 0.25, 0.15, 0.1; with authority 1.0 and every other weight 0 the
\* overall score is the authority score.
C1_WeightedSumLaw ==
    ScoreReturned(score_call) =>
        LET w == WeightsInForce(rules)
            overall == OverallOf(score_call).score
        IN  /\ DOMAIN w = Dimensions =>
                   RMul(overall, FiveWeightTotal(w)) = FiveTermSum(score_call, w)
            /\ rules = get_default_rules =>
                   overall = FiveTermSum(score_call,
                                 [ authority |-> R(3, 10), document_type |-> R(2, 10),
                                   review |-> R(25, 100), currency |-> R(15, 100),
                                   completeness |-> R(1, 10) ])
            /\ w = AuthorityOnlyWeights => overall = AuthorityOf(score_call).score

\* an authority-only engine has scored a provenance whose dimensions differ
C1_Witness ==
    /\ ScoreReturned(score_call)
    /\ WeightsInForce(rules) = AuthorityOnlyWeights
    /\ AuthorityOf(score_call).score = R(8, 10)
    /\ DocumentTypeOf(score_call).score = R(3, 10)
    /\ OverallOf(score_call).score = R(8, 10)

\* the currency score the claim gives for an age in whole years
ClaimedCurrencyScore(age) ==
    IF age <= 1 THEN R(9, 10)
    ELSE IF age <= 3 THEN R(8, 10)
    ELSE IF age <= 5 THEN R(5, 10)
    ELSE R(4, 10)

CurrencyAsClaimed(args, call) ==
    LET pd == args.provenance.publication_date
        c == CurrencyOf(call)
    IN  IF pd = Nothing
        THEN c.score = R(5, 10) /\ c.confidence = R(3, 10)
        ELSE /\ c.confidence = R(6, 10)
             /\ c.score = ClaimedCurrencyScore(The(call).now_year - The(pd).year)

\* C6: the currency score is a function of the age (year of the call minus
\* publication year): 0.5 with confidence 0.3 without a date; else confidence 0.6
\* and 0.9 / 0.8 / 0.5 / 0.4 for age <= 1 / <= 3 / <= 5 / greater; a later call
\* on the same provenance (a greater age) never returns a greater score.
C6_CurrencyByAge ==
    [][ ScoreReturned(score_call') =>
          /\ CurrencyAsClaimed(score_args', score_call')
          /\ ScoreReturned(score_call) =>
                 RLeq(CurrencyOf(score_call').score, CurrencyOf(score_call).score) ]_vars

\* a document scored at age 1 has been scored again one year later, at 0.8
C6_Witness ==
    /\ ScoreReturned(score_call)
    /\ score_args.provenance.publication_date = Some(Date(BaseYear - 1, 6, 15))
    /\ The(score_call).now_year = BaseYear + 1
    /\ CurrencyOf(score_call).score = R(8, 10)

\* the candidate the claim gives an institution
ClaimedCandidate(institution) ==
    LET low == TextLower(institution)
    IN  IF \E t \in { ".gov", ".edu", "university", "college" } : TextContains(low, t)
        THEN R(8, 10)
        ELSE IF \E t \in { "inc.", "corp", "ltd", "gmbh" } : TextContains(low, t)
        THEN R(6, 10)
        ELSE R(4, 10)

\* r is the greatest element of the non-empty set S of rationals
IsMaxOf(r, S) == r \in S /\ \A x \in S : RLeq(x, r)

Credentialed(authors) ==
    \E i \in DOMAIN authors : \E t \in { "Ph.D", "Dr.", "Professor" } : Contains(authors[i], t)

\* C7: the authority score is the maximum of the base (0.5 without institutions,
\* else the highest institution candidate), 0.7 with more than one author and
\* 0.8 with a credentialed author; a credentialed author or an academic or
\* government institution gives at least 0.8.
C7_AuthorityIsMax ==
    ScoreReturned(score_call) =>
        LET p == score_args.provenance
            candidates == { ClaimedCandidate(p.institutions[i]) : i \in DOMAIN p.institutions }
            base == IF p.institutions = <<>> THEN { R(5, 10) }
                    ELSE { c \in candidates : IsMaxOf(c, candidates) }
            floors == (IF Len(p.authors) > 1 THEN { R(7, 10) } ELSE {})
                      \cup (IF Credentialed(p.authors) THEN { R(8, 10) } ELSE {})
            score == AuthorityOf(score_call).score
        IN  /\ IsMaxOf(score, base \cup floors)
            /\ (Credentialed(p.authors) \/ R(8, 10) \in candidates) => RLeq(R(8, 10), score)

\* an academic institution listed before an unclassified one still gives 0.8
C7_Witness ==
    /\ ScoreReturned(score_call)
    /\ score_args.provenance.institutions = << <<"Stanford University">>, <<"NIH">> >>
    /\ score_args.provenance.authors = <<>>
    /\ AuthorityOf(score_call).score = R(8, 10)

(***************************************************************************)
(* Properties of the policy engine                                         *)
(***************************************************************************)
PolicyProvenance == The(policy_args).provenance
PolicyTrust == The(policy_args).trust
Policy == The(policy_call)

HasCitation(p) == IsSome(p.citation) /\ The(p.citation) # <<>>

\* the license the claim gives a provenance
ClaimedLicense(p) ==
    CASE p.document_type = "government_document" -> "public_domain"
      [] p.document_type \in { "research_paper", "conference_paper", "thesis", "preprint" } ->
             IF HasCitation(p) /\ TextContains(The(p.citation), "arXiv")
             THEN "CC-BY" ELSE "copyrighted"
      [] p.document_type \in { "technical_report", "standard" } -> "copyrighted"
      [] OTHER -> "unknown"

\* C2: the license is a function of the provenance alone: government document
\* -> PUBLIC_DOMAIN; research paper, conference paper, thesis, preprint -> CC_BY
\* when the citation contains "arXiv", else COPYRIGHTED; technical report,
\* standard -> COPYRIGHTED; every other type, a missing one included -> UNKNOWN.
C2_LicenseFromProvenance ==
    IsSome(policy_call) => Policy.license = ClaimedLicense(PolicyProvenance)

\* a thesis cited without "arXiv" (lower-case "arxiv.org") came out COPYRIGHTED
C2_Witness ==
    /\ IsSome(policy_call)
    /\ PolicyProvenance.document_type = "thesis"
    /\ PolicyProvenance.citation = Some(<<"Smith, J. (2023). Deep Nets. arxiv.org">>)
    /\ Policy.license = "copyrighted"

FirstThree(authors) == SubSeq(authors, 1, IF Len(authors) < 3 THEN Len(authors) ELSE 3)

\* the attribution text the claim gives a provenance under a license that keeps it
ClaimedAttributionText(p) ==
    IF HasCitation(p) THEN p.citation
    ELSE IF p.title \notin { NONE, "" } /\ p.authors # <<>>
    THEN Some(JoinAuthors(FirstThree(p.authors))
              \o <<" (", IF p.publication_date = Nothing THEN "n.d."
                         ELSE ToString(The(p.publication_date).year),
                   "). ", p.title>>)
    ELSE Nothing

\* C3: attribution_required is false and attribution_text is none exactly when
\* the license is PUBLIC_DOMAIN, so for every government document; under every
\* other license attribution is required and the text is the citation, else the
\* synthesized "authors (year). title", else none.
C3_Attribution ==
    IsSome(policy_call) =>
        /\ (~Policy.attribution_required /\ Policy.attribution_text = Nothing)
               <=> Policy.license = "public_domain"
        /\ PolicyProvenance.document_type = "government_document" =>
               ~Policy.attribution_required /\ Policy.attribution_text = Nothing
        /\ Policy.license # "public_domain" =>
               /\ Policy.attribution_required
               /\ Policy.attribution_text = ClaimedAttributionText(PolicyProvenance)

\* a cited paper with title and authors is attributed by its citation
C3_Witness ==
    /\ IsSome(policy_call)
    /\ Policy.license = "copyrighted"
    /\ HasCitation(PolicyProvenance)
    /\ PolicyProvenance.title # NONE
    /\ PolicyProvenance.authors # <<>>
    /\ Policy.attribution_text = PolicyProvenance.citation

InSeq(x, seq) == \E i \in DOMAIN seq : seq[i] = x

\* C4: under a COPYRIGHTED license, whatever the trust score, NO_TRAINING is in
\* both allowed_actions and prohibited_actions, ATTRIBUTION_REQUIRED is allowed
\* and NO_QUOTING is prohibited.
C4_CopyrightedOverlay ==
    (IsSome(policy_call) /\ Policy.license = "copyrighted") =>
        /\ InSeq("no_training", Policy.allowed_actions)
        /\ InSeq("no_training", Policy.prohibited_actions)
        /\ InSeq("attribution_required", Policy.allowed_actions)
        /\ InSeq("no_quoting", Policy.prohibited_actions)

\* copyrighted material at trust 0.4
C4_Witness ==
    /\ IsSome(policy_call)
    /\ Policy.license = "copyrighted"
    /\ PolicyTrust.overall_score # Nothing
    /\ The(PolicyTrust.overall_score).score = R(4, 10)
    /\ InSeq("no_training", Policy.allowed_actions)
    /\ InSeq("no_training", Policy.prohibited_actions)

\* C5: under UNKNOWN or CC_BY, a score >= 0.7 gives allowed = [ALLOWED,
\* ATTRIBUTION_REQUIRED], commercial use and nothing prohibited; a score below
\* 0.7 gives allowed = [ALLOWED], no commercial use and NON_COMMERCIAL_ONLY
\* prohibited.
C5_TrustThreshold ==
    (/\ IsSome(policy_call)
     /\ Policy.license \in { "unknown", "CC-BY" }
     /\ PolicyTrust.overall_score # Nothing) =>
        IF RLeq(R(7, 10), The(PolicyTrust.overall_score).score)
        THEN /\ Policy.allowed_actions = <<"allowed", "attribution_required">>
             /\ Policy.commercial_use_allowed
             /\ Policy.prohibited_actions = <<>>
        ELSE /\ Policy.allowed_actions = <<"allowed">>
             /\ ~Policy.commercial_use_allowed
             /\ Policy.prohibited_actions = <<"non_commercial_only">>

\* a score of exactly 0.7 under CC_BY
C5_Witness ==
    /\ IsSome(policy_call)
    /\ Policy.license = "CC-BY"
    /\ PolicyTrust.overall_score # Nothing
    /\ The(PolicyTrust.overall_score).score = R(7, 10)
    /\ Policy.commercial_use_allowed

(***************************************************************************)
(* Properties of the inferencer                                            *)
(***************************************************************************)
\* the call returned a (provenance, explainability) pair
InferReturned(call) == call.raised = NONE
InferredProvenance(call) == The(call.provenance)

\* the trail as the caller reads it: the list of the inferencer itself
TrailOf(call) == inferencers[call.on].inference_sources

\* some line of the content, lower-cased, has one of the terms in it
Mentions(content, terms) ==
    \E i \in DOMAIN content, term \in terms : Contains(Lower(content[i]), term)

\* the embedded PDF metadata has keywords with the term in them
PdfKeywordsMention(metadata, term) ==
    /\ "pdf_metadata" \in DOMAIN metadata
    /\ metadata["pdf_metadata"].kind = "dict"
    /\ "keywords" \in DOMAIN metadata["pdf_metadata"].d
    /\ metadata["pdf_metadata"].d["keywords"].kind = "str"
    /\ Contains(Lower(metadata["pdf_metadata"].d["keywords"].s), term)

\* the file name, lower-cased, has the term in it
FilenameMentions(metadata, term) ==
    /\ "filename" \in DOMAIN metadata
    /\ metadata["filename"].kind = "str"
    /\ Contains(Lower(metadata["filename"].s), term)

HasArxivId(content) == \E i \in DOMAIN content : RegexSearch("ARXIV_PATTERN", content[i])
HasDoi(content) == \E i \in DOMAIN content : RegexSearch("DOI_PATTERN", content[i])

\* the precedence of the claim: the document type and the tag of the first rule
\* that matches, for a given set of thesis keywords
ClaimedDocumentType(input, thesis_keywords) ==
    IF HasArxivId(input.content) THEN <<"preprint", "arxiv_id_detected">>
    ELSE IF HasDoi(input.content) /\ Mentions(input.content, thesis_keywords)
    THEN <<"thesis", "doi_with_thesis_keywords">>
    ELSE IF HasDoi(input.content) THEN <<"research_paper", "doi_detected">>
    ELSE IF Mentions(input.content, legal_terms)
    THEN <<"legal_document", "legal_terminology">>
    ELSE IF PdfKeywordsMention(input.metadata, "patent") THEN <<"patent", "pdf_keywords">>
    ELSE IF FilenameMentions(input.metadata, "report")
    THEN <<"technical_report", "filename_pattern">>
    ELSE IF FilenameMentions(input.metadata, "patent") THEN <<"patent", "filename_pattern">>
    ELSE <<"unknown", "no_strong_indicators">>

DocumentTypeAsClaimed(call, thesis_keywords) ==
    LET claimed == ClaimedDocumentType(call.input, thesis_keywords)
    IN  /\ InferredProvenance(call).document_type = claimed[1]
        /\ InSeq("document_type: " \o claimed[2], TrailOf(call))

\* C8 (amended): every call that returns gives the document type, and records
\* the source tag, of the first rule that matches in the order arXiv identifier,
\* DOI (THESIS when "thesis", "dissertation" or "phd" occurs in the lower-cased
\* content, else RESEARCH_PAPER), legal terminology, "patent" in the PDF
\* keywords, "report" then "patent" in the lower-cased file name, else UNKNOWN.
C8_DocumentTypePrecedence ==
    \A i \in DOMAIN infer_calls :
        InferReturned(infer_calls[i]) =>
            DocumentTypeAsClaimed(infer_calls[i], { "thesis", "dissertation", "phd" })

\* C8 as stated: the same precedence with THESIS only for the keywords thesis
\* and dissertation, and RESEARCH_PAPER for every other content with a DOI.
C8_AsStated ==
    \A i \in DOMAIN infer_calls :
        InferReturned(infer_calls[i]) =>
            DocumentTypeAsClaimed(infer_calls[i], { "thesis", "dissertation" })

\* a DOI next to "PhD", without "thesis", "dissertation" or an arXiv identifier,
\* has been classified as a THESIS
C8_Witness ==
    \E i \in DOMAIN infer_calls :
        /\ InferReturned(infer_calls[i])
        /\ HasDoi(infer_calls[i].input.content)
        /\ ~HasArxivId(infer_calls[i].input.content)
        /\ Mentions(infer_calls[i].input.content, { "phd" })
        /\ ~Mentions(infer_calls[i].input.content, { "thesis", "dissertation" })
        /\ InferredProvenance(infer_calls[i]).document_type = "thesis"

\* the source tag that says a field found no signal, and the field's default
DefaultsHold(call) ==
    LET p == InferredProvenance(call)
        FoundNothing(tag) == InSeq(tag, TrailOf(call))
    IN  /\ FoundNothing("document_type: no_strong_indicators") => p.document_type = "unknown"
        /\ FoundNothing("authors: metadata_extraction") => p.authors = <<>>
        /\ FoundNothing("institutions: no_institutions_found") => p.institutions = <<>>
        /\ FoundNothing("publication_date: no_date_found") => p.publication_date = Nothing
        /\ FoundNothing("title: no_title_found") => p.title = NONE
        /\ FoundNothing("review_status: default_unreviewed") => p.review_status = "unreviewed"
        /\ FoundNothing("citation: insufficient_data") => p.citation = Nothing

\* C9: every call of infer_from_metadata returns without raising, whatever the
\* content and the metadata, malformed metadata included; the document type it
\* returns is a DocumentType member and every field that found no signal holds
\* its default.
C9_InferenceIsTotal ==
    \A i \in DOMAIN infer_calls :
        /\ InferReturned(infer_calls[i])
        /\ InferredProvenance(infer_calls[i]).document_type \in DocumentType
        /\ DefaultsHold(infer_calls[i])

\* a call on a metadata record whose pdf_metadata is None has raised
C9_Witness ==
    \E i \in DOMAIN infer_calls :
        /\ infer_calls[i].input.metadata = [ pdf_metadata |-> PyNone ]
        /\ infer_calls[i].raised = "AttributeError"
        /\ infer_calls[i].provenance = Nothing

\* the two blocks agree in every field but retrieved_date
EqualButRetrieved(p, q) ==
    [ p EXCEPT !.retrieved_date = Nothing ] = [ q EXCEPT !.retrieved_date = Nothing ]

\* C10: two calls of infer_from_metadata with the same content and metadata that
\* return, on one inferencer or on two and whatever was called in between,
\* return provenance blocks equal in every field but retrieved_date, the order
\* of the institutions and the citation included.
C10_Idempotent ==
    \A i, j \in DOMAIN infer_calls :
        (/\ infer_calls[i].input = infer_calls[j].input
         /\ InferReturned(infer_calls[i])
         /\ InferReturned(infer_calls[j])) =>
            EqualButRetrieved(InferredProvenance(infer_calls[i]),
                              InferredProvenance(infer_calls[j]))

\* two calls on the same input have returned the same two institutions in two
\* orders, and two citations
C10_Witness ==
    \E i, j \in DOMAIN infer_calls :
        /\ infer_calls[i].input = infer_calls[j].input
        /\ InferReturned(infer_calls[i])
        /\ InferReturned(infer_calls[j])
        /\ Len(InferredProvenance(infer_calls[i]).institutions) = 2
        /\ InferredProvenance(infer_calls[i]).institutions[1]
               = InferredProvenance(infer_calls[j]).institutions[2]
        /\ InferredProvenance(infer_calls[i]).institutions[2]
               = InferredProvenance(infer_calls[j]).institutions[1]
        /\ IsSome(InferredProvenance(infer_calls[i]).citation)
        /\ InferredProvenance(infer_calls[i]).citation
               # InferredProvenance(infer_calls[j]).citation

\* within one process: two calls on the same input by inferencers that share a
\* hash seed return blocks equal in every field but retrieved_date
InferenceRepeatsInOneProcess ==
    \A i, j \in DOMAIN infer_calls :
        (/\ infer_calls[i].input = infer_calls[j].input
         /\ hash_seed[infer_calls[i].on] = hash_seed[infer_calls[j].on]
         /\ InferReturned(infer_calls[i])
         /\ InferReturned(infer_calls[j])) =>
            EqualButRetrieved(InferredProvenance(infer_calls[i]),
                              InferredProvenance(infer_calls[j]))

(***************************************************************************)
(* Properties of repeated calls and of the configuration                   *)
(***************************************************************************)
\* C11: two calls of calculate_trust_scores on one engine with the same
\* provenance and content metadata return the same six scores (score,
\* confidence, rule tag, explanation), whenever they are made; a call leaves
\* the engine's rules and the arguments as they were.
C11_ScoringIsDeterministic ==
    [][ /\ rules' = rules
        /\ score_args' = score_args
        /\ (ScoreReturned(score_call) /\ ScoreReturned(score_call')) =>
               The(score_call').result = The(score_call).result ]_vars

\* a dated document has been scored, the calendar year has changed since, and
\* the same call made now returns another currency explanation
C11_Witness ==
    /\ ScoreReturned(score_call)
    /\ IsSome(score_args.provenance.publication_date)
    /\ The(score_call).now_year < now_year
    /\ calculate_currency_score(score_args.provenance, now_year).explanation
           # CurrencyOf(score_call).explanation

\* the trail a call returned, as its holder reads it now: inference_sources is
\* the list of the inferencer, the confidence map and the warnings are copies
TrailRead(call) ==
    [ inference_sources |->
          inferencers[The(call.explainability).inference_sources.list_of].inference_sources,
      confidence_scores |-> The(call.explainability).confidence_scores,
      warnings |-> The(call.explainability).warnings ]

\* C12: no later call of infer_from_metadata changes the inference_sources, the
\* confidence map or the warnings of a trail that an earlier call returned.
C12_TrailReadOnlyAfterward ==
    [][ \A i \in DOMAIN infer_calls :
            InferReturned(infer_calls[i]) =>
                TrailRead(infer_calls[i])' = TrailRead(infer_calls[i]) ]_vars

\* the trail the first call returned has grown under a second call on the same
\* inferencer
C12_Witness ==
    \E i, j \in DOMAIN infer_calls :
        /\ i < j
        /\ infer_calls[i].on = infer_calls[j].on
        /\ InferReturned(infer_calls[i])
        /\ InferReturned(infer_calls[j])
        /\ Len(TrailRead(infer_calls[i]).inference_sources) = 14

\* the seven inferred fields, in the order infer_from_metadata infers them
InferredFields ==
    <<"document_type", "authors", "institutions", "publication_date", "title",
      "review_status", "citation">>

\* the source tags of the inferencer
SourceTags ==
    { "arxiv_id_detected", "doi_with_thesis_keywords", "doi_detected", "legal_terminology",
      "pdf_keywords", "filename_pattern", "no_strong_indicators", "metadata_extraction",
      "metadata_author_field", "pdf_metadata", "content_analysis", "no_institutions_found",
      "keyword_matching", "email_domain_analysis", "no_date_found", "metadata_created",
      "metadata_modified", "metadata_creation_date", "metadata_modification_date",
      "year_pattern_in_content", "no_title_found", "metadata_title_field",
      "first_line_extraction", "preprint_implication", "explicit_peer_review_mention",
      "journal_formatting", "blog_formatting", "default_unreviewed", "insufficient_data",
      "generated_from_provenance" }

\* the call that has just returned
LastInferCall == infer_calls[Len(infer_calls)]

\* one entry per field, in order, and the seven fields at confidence 0.5
SevenEntries(trail) ==
    /\ Len(trail.inference_sources) = Len(InferredFields)
    /\ \A k \in DOMAIN InferredFields :
           \E tag \in SourceTags :
               trail.inference_sources[k] = InferredFields[k] \o ": " \o tag
    /\ DOMAIN trail.confidence_scores = { InferredFields[k] : k \in DOMAIN InferredFields }
    /\ \A field \in DOMAIN trail.confidence_scores :
           trail.confidence_scores[field] = R(1, 2)

\* C13: the trail a call of infer_from_metadata returns, the first call on an
\* inferencer or a later one, holds exactly one "field: tag" entry per inferred
\* field, in the order of inference, and a confidence map of exactly the seven
\* fields at 0.5.
C13_SevenEntriesPerCall ==
    (infer_calls # <<>> /\ InferReturned(LastInferCall)) =>
        SevenEntries(TrailRead(LastInferCall))

\* a second call on an inferencer has just returned a trail of fourteen entries
\* that starts with the seven entries of the first call
C13_Witness ==
    /\ Len(infer_calls) = 2
    /\ infer_calls[1].on = infer_calls[2].on
    /\ InferReturned(infer_calls[1])
    /\ InferReturned(LastInferCall)
    /\ Len(TrailRead(LastInferCall).inference_sources) = 2 * Len(InferredFields)
    /\ Len(The(LastInferCall.provenance).institutions) = 2
    /\ TrailRead(LastInferCall).inference_sources[3] = "institutions: no_institutions_found"

\* the first call on an inferencer returns the seven entries
FirstCallHasSevenEntries ==
    \A i \in DOMAIN infer_calls :
        (/\ InferReturned(infer_calls[i])
         /\ \A j \in 1..(i - 1) : infer_calls[j].on # infer_calls[i].on
         /\ \A j \in (i + 1)..Len(infer_calls) : infer_calls[j].on # infer_calls[i].on) =>
            SevenEntries(TrailRead(infer_calls[i]))

(***************************************************************************)
(* Two threads inside infer_from_metadata on one shared inferencer         *)
(***************************************************************************)
Threads == { "t1", "t2" }

\* the statements of infer_from_metadata, one per field: the _infer_* call
\* the statement makes, on the arguments and on the thread's own provenance
infer_field(field, content, metadata, seed, provenance) ==
    CASE field = "document_type" -> infer_document_type(content, metadata)
      [] field = "authors" -> infer_authors(content, metadata)
      [] field = "institutions" -> infer_institutions(content, metadata, seed)
      [] field = "publication_date" -> infer_publication_date(content, metadata)
      [] field = "title" -> infer_title(content, metadata)
      [] field = "review_status" ->
             infer_review_status(content, metadata, provenance.document_type)
      [] field = "citation" -> infer_citation(provenance)

\* what the threads are called with: a preprint, a page with two institutions
\* and metadata, and a record the document type step raises on
ThreadInputs ==
    { [ content |-> <<"arXiv:2301.00001">>, metadata |-> <<>> ],
      [ content |-> <<"  Stanford University ", "\n\n", "Contact: alice@mit.edu">>,
        metadata |-> [ author |-> PyStr("Jane Smith"), title |-> PyStr("Deep Nets") ] ],
      [ content |-> <<"Just some random text">>, metadata |-> [ pdf_metadata |-> PyNone ] ] }

\* the frame of a thread that has entered infer_from_metadata: `at` is the
\* statement it is about to run, its provenance is the fresh ProvenanceBlock()
ThreadFrame(input) ==
    [ input |-> input, at |-> 1, status |-> "running",
      provenance |-> ProvenanceBlock(NONE, NONE, <<>>, <<>>, Nothing, NONE, Nothing),
      result |-> Nothing ]

InitThreads ==
    /\ IdleScore
    /\ IdlePolicy
    /\ inferencers = <<ProvenanceInferencer_init>>
    /\ hash_seed = <<0>>
    /\ clock = 0
    /\ infer_input = <<>>
    /\ infer_calls = <<>>
    /\ threads \in [ Threads -> { ThreadFrame(input) : input \in ThreadInputs } ]
    /\ IdleApi
    /\ IdleCache

ThreadInference(t) ==
    infer_field(InferredFields[threads[t].at], threads[t].input.content,
                threads[t].input.metadata, hash_seed[1], threads[t].provenance)

\* one statement of a thread: the field is inferred from the thread's own
\* arguments and recorded on the shared object.  list.append and the dict
\* store are each atomic under the interpreter lock, and the store always
\* writes the same 0.5, so the two are taken as one step.
ThreadRecord(t) ==
    /\ threads[t].status = "running"
    /\ threads[t].at \in DOMAIN InferredFields
    /\ ThreadInference(t).raised = NONE
    /\ inferencers' = [ inferencers EXCEPT ![1] =
                          record_inference(@, InferredFields[threads[t].at],
                                           ThreadInference(t).source) ]
    /\ threads' = [ threads EXCEPT
                      ![t].provenance[InferredFields[threads[t].at]] =
                          ThreadInference(t).value,
                      ![t].at = @ + 1 ]
    /\ UNCHANGED <<hash_seed, clock, infer_input, infer_calls, scoreVars, policyVars, apiVars, cacheVars>>

\* the statement raises: the thread leaves the method with nothing returned
ThreadRaise(t) ==
    /\ threads[t].status = "running"
    /\ threads[t].at \in DOMAIN InferredFields
    /\ ThreadInference(t).raised # NONE
    /\ threads' = [ threads EXCEPT
                      ![t].status = "raised",
                      ![t].result = Some([ on |-> 1, input |-> threads[t].input,
                                           raised |-> ThreadInference(t).raised,
                                           provenance |-> Nothing,
                                           explainability |-> Nothing ]) ]
    /\ UNCHANGED <<inferencers, hash_seed, clock, infer_input, infer_calls, scoreVars,
                   policyVars, apiVars, cacheVars>>

\* the tail of the method: retrieved_date, the explainability block, return
ThreadReturn(t) ==
    /\ threads[t].status = "running"
    /\ threads[t].at = Len(InferredFields) + 1
    /\ threads' = [ threads EXCEPT
                      ![t].status = "returned",
                      ![t].result =
                          Some([ on |-> 1, input |-> threads[t].input, raised |-> NONE,
                                 provenance |->
                                     Some([ threads[t].provenance EXCEPT
                                              !.retrieved_date = Some(clock) ]),
                                 explainability |->
                                     Some([ inference_sources |-> [ list_of |-> 1 ],
                                            confidence_scores |->
                                                inferencers[1].confidence_scores,
                                            warnings |-> inferencers[1].warnings ]) ]) ]
    /\ clock' = clock + 1
    /\ UNCHANGED <<inferencers, hash_seed, infer_input, infer_calls, scoreVars, policyVars, apiVars, cacheVars>>

NextThreads == \E t \in Threads : ThreadRecord(t) \/ ThreadRaise(t) \/ ThreadReturn(t)

\* two calls at the same time on one inferencer, under every interleaving
SpecThreads == InitThreads /\ [][NextThreads]_vars

\* what the thread's call gives when nothing else runs: the same call, made on
\* the inferencer as the two threads found it
CallAlone(t) ==
    infer_from_metadata(1, ProvenanceInferencer_init, threads[t].input.content,
                        threads[t].input.metadata, 0, hash_seed[1])

ThreadReturned(t) == threads[t].status = "returned"
ThreadCall(t) == The(threads[t].result)

\* C14: when two threads call infer_from_metadata at the same time on one
\* shared inferencer, under every interleaving each call that returns gives the
\* provenance and the trail it gives when run alone, so that no entry recorded
\* by the other call is in its trail.
C14_ThreadSafe ==
    \A t \in DOMAIN threads :
        ThreadReturned(t) =>
            /\ CallAlone(t).raised = NONE
            /\ EqualButRetrieved(InferredProvenance(ThreadCall(t)),
                                 The(CallAlone(t).provenance))
            /\ TrailRead(ThreadCall(t)).inference_sources = CallAlone(t).self.inference_sources

\* both threads have returned and the trail either of them holds starts with
\* the document type entry of one call followed by that of the other
C14_Witness ==
    \E t, u \in DOMAIN threads :
        /\ ThreadReturned(t)
        /\ ThreadReturned(u)
        /\ threads[t].input # threads[u].input
        /\ Len(TrailRead(ThreadCall(t)).inference_sources) = 2 * Len(InferredFields)
        /\ TrailRead(ThreadCall(t)).inference_sources[1] = CallAlone(t).self.inference_sources[1]
        /\ TrailRead(ThreadCall(t)).inference_sources[2] = CallAlone(u).self.inference_sources[1]
        /\ TrailRead(ThreadCall(t)).inference_sources[1] # TrailRead(ThreadCall(t)).inference_sources[2]
        /\ TrailRead(ThreadCall(u)).inference_sources = TrailRead(ThreadCall(t)).inference_sources

\* the provenance a thread returns, and whether it raises, are what the call
\* gives alone: the threads share the trail only
ThreadsShareOnlyTheTrail ==
    \A t \in DOMAIN threads :
        /\ ThreadReturned(t) =>
               /\ CallAlone(t).raised = NONE
               /\ EqualButRetrieved(InferredProvenance(ThreadCall(t)),
                                    The(CallAlone(t).provenance))
               /\ The(ThreadCall(t).explainability).confidence_scores
                      = CallAlone(t).self.confidence_scores
        /\ threads[t].status = "raised" => ThreadCall(t).raised = CallAlone(t).raised

(***************************************************************************)
(* Engines built from partial and from extended configurations             *)
(***************************************************************************)
\* a weights map that leaves three dimensions out
PartialWeights == [ authority |-> R(5, 10), review |-> R(5, 10) ]

\* a weights map with a dimension the engine does not score
ExtendedWeights == BuiltinWeights @@ [ novelty |-> R(1, 10) ]

\* configurations that lack tables, that leave weights out, and that carry keys
\* the engine does not know
PartialConfigs ==
    { Some([ weights |-> AuthorityOnlyWeights ]),
      Some([ document_type_scores |-> [ research_paper |-> R(1, 1),
                                        blog_post |-> R(1, 10) ] ]),
      Some([ review_scores |-> [ peer_reviewed |-> R(1, 1) ] ]),
      Some([ weights |-> PartialWeights ]) }

ExtendedConfigs ==
    { Some([ weights |-> BuiltinWeights,
             custom_thresholds |-> [ high |-> R(8, 10) ] ]),
      Some([ custom_thresholds |-> [ high |-> R(8, 10) ] ]),
      Some([ weights |-> ExtendedWeights ]) }

ConfigProvenances ==
    { ProvenanceBlock(dt, NONE, a, i, pd, rs, NONE) :
        dt \in { NONE, "research_paper", "blog_post", "standard" },
        a \in { <<>>, <<"Dr. John Doe">> },
        i \in { <<>>, << <<"Stanford University">> >> },
        pd \in { Nothing, Some(Date(BaseYear - 4, 6, 15)) },
        rs \in { NONE, "peer_reviewed", "self_published" } }

SpecConfig ==
    InitScoreOver(PartialConfigs \cup ExtendedConfigs, ConfigProvenances) /\ [][NextScore]_vars

\* the weight map of the claim: the configured weight of a dimension, and the
\* built-in weight of a dimension the configuration leaves out
WeightsAsClaimed(engine_rules) ==
    LET w == WeightsInForce(engine_rules)
    IN  [ dim \in Dimensions |-> IF dim \in DOMAIN w THEN w[dim] ELSE BuiltinWeights[dim] ]

\* document type and review status the engine scores the provenance by
ScoredDocumentType == IF score_args.provenance.document_type = NONE THEN "unknown" ELSE score_args.provenance.document_type
ScoredReviewStatus == IF score_args.provenance.review_status = NONE THEN "unreviewed" ELSE score_args.provenance.review_status

\* an engine without the table scores by the built-in one
MissingTablesFallBack ==
    ScoreReturned(score_call) =>
        /\ "document_type_scores" \notin DOMAIN rules =>
               DocumentTypeOf(score_call).score
                   = TableLookup(<<>>, DocumentTypeDefaultScores, ScoredDocumentType)
        /\ "review_scores" \notin DOMAIN rules =>
               ReviewOf(score_call).score
                   = TableLookup(<<>>, ReviewDefaultScores, ScoredReviewStatus)
        /\ "weights" \notin DOMAIN rules =>
               RMul(OverallOf(score_call).score, FiveWeightTotal(BuiltinWeights))
                   = FiveTermSum(score_call, BuiltinWeights)

\* C15: an engine built from a configuration that lacks the weights, the
\* document_type_scores or the review_scores table uses the built-in table, and
\* an engine whose weights map leaves a dimension out weighs that dimension by
\* its built-in weight (0.3, 0.2, 0.25, 0.15, 0.1) in the overall score.
C15_MissingKeysFallBack ==
    /\ MissingTablesFallBack
    /\ (ScoreReturned(score_call) /\ DOMAIN WeightsInForce(rules) \subseteq Dimensions) =>
           RMul(OverallOf(score_call).score, FiveWeightTotal(WeightsAsClaimed(rules)))
               = FiveTermSum(score_call, WeightsAsClaimed(rules))

\* an engine whose weights name authority and review only has returned the mean
\* of these two scores, the document type score being another
C15_Witness ==
    /\ ScoreReturned(score_call)
    /\ WeightsInForce(rules) = PartialWeights
    /\ OverallOf(score_call).score
           = RDiv(RAdd(AuthorityOf(score_call).score, ReviewOf(score_call).score), R(2, 1))
    /\ DocumentTypeOf(score_call).score # OverallOf(score_call).score
    /\ RMul(OverallOf(score_call).score, FiveWeightTotal(WeightsAsClaimed(rules)))
           # FiveTermSum(score_call, WeightsAsClaimed(rules))

\* the keys and the dimensions the engine knows
KnownKeys == { "weights", "document_type_scores", "review_scores" }
HasUnknownTopLevelKey(engine_rules) == ~(DOMAIN engine_rules \subseteq KnownKeys)
HasUnknownDimension(engine_rules) == ~(DOMAIN WeightsInForce(engine_rules) \subseteq Dimensions)

\* the weights in force, without the dimensions the engine does not score
RecognizedWeights(engine_rules) ==
    LET w == WeightsInForce(engine_rules)
    IN  [ dim \in DOMAIN w \cap Dimensions |-> w[dim] ]

\* the call has returned the weighted mean over the recognized dimensions
OverallFromRecognized(call) ==
    /\ ScoreReturned(call)
    /\ RMul(OverallOf(call).score,
            RSum(RecognizedWeights(rules), DOMAIN RecognizedWeights(rules)))
           = WeightedSum(OverallScores([ authority_score |-> AuthorityOf(call),
                                         document_type_score |-> DocumentTypeOf(call),
                                         review_score |-> ReviewOf(call),
                                         currency_score |-> CurrencyOf(call),
                                         completeness_score |-> CompletenessOf(call) ]),
                         RecognizedWeights(rules))

\* C16: for a configuration that carries a key the engine does not know, at the
\* top level or as an extra dimension name in the weights map, a call of
\* calculate_trust_scores returns without raising and its overall score is
\* computed from the five recognized dimensions only.
C16_UnknownKeysIgnored ==
    (IsSome(score_call) /\ (HasUnknownTopLevelKey(rules) \/ HasUnknownDimension(rules))) =>
        OverallFromRecognized(score_call)

\* a call on an engine whose weights map names a sixth dimension has raised
C16_Witness ==
    /\ IsSome(score_call)
    /\ WeightsInForce(rules) = ExtendedWeights
    /\ The(score_call).result.raised = "KeyError"
    /\ The(score_call).result.trust = Nothing

\* a key the engine does not know at the top level is ignored
UnknownTopLevelKeyIgnored ==
    (IsSome(score_call) /\ HasUnknownTopLevelKey(rules)) =>
        OverallFromRecognized(score_call)

(***************************************************************************)
(* The document type score over every document type                        *)
(***************************************************************************)
\* the override table of test_custom_rules_configuration, and one that scores
\* a type the built-in table does not have
DocTypeConfigs ==
    { Nothing,
      Some([ weights |-> BuiltinWeights,
             document_type_scores |-> [ research_paper |-> R(1, 1),
                                        blog_post |-> R(1, 10) ] ]),
      Some([ document_type_scores |-> [ dataset |-> R(2, 10) ] ]) }

\* every member of DocumentType, no document type, and two values outside the
\* enumeration, which the dataclass does not reject
DocTypeProvenances ==
    { ProvenanceBlock(dt, NONE, <<>>, <<>>, Nothing, rs, NONE) :
        dt \in DocumentType \cup { NONE, "dataset", "podcast" },
        rs \in { NONE, "peer_reviewed" } }

SpecDocType == InitScoreOver(DocTypeConfigs, DocTypeProvenances) /\ [][NextScore]_vars

\* the built-in values as the claim lists them
ClaimedDocumentTypeScores ==
    [ research_paper |-> R(9, 10), government_document |-> R(85, 100),
      technical_report |-> R(8, 10), thesis |-> R(8, 10), standard |-> R(85, 100),
      patent |-> R(75, 100), conference_paper |-> R(7, 10),
      legal_document |-> R(7, 10), newspaper_article |-> R(6, 10),
      preprint |-> R(5, 10), wikipedia_entry |-> R(5, 10), unknown |-> R(4, 10),
      blog_post |-> R(3, 10) ]

\* the document_type_scores table the engine was configured with, if any
ConfiguredDocumentTypeScores ==
    IF "document_type_scores" \in DOMAIN rules THEN rules["document_type_scores"] ELSE <<>>

\* C17: the document type score is the configured document_type_scores entry of
\* the type when there is one, else the built-in value of the type (0.9 for a
\* research paper down to 0.3 for a blog post), else 0.5; a provenance without
\* a document type is scored as UNKNOWN.
C17_DocumentTypeLookup ==
    ScoreReturned(score_call) =>
        LET dt == score_args.provenance.document_type
            scored == IF dt = NONE THEN "unknown" ELSE dt
        IN  DocumentTypeOf(score_call).score =
                IF scored \in DOMAIN ConfiguredDocumentTypeScores
                THEN ConfiguredDocumentTypeScores[scored]
                ELSE IF scored \in DOMAIN ClaimedDocumentTypeScores
                THEN ClaimedDocumentTypeScores[scored]
                ELSE R(1, 2)

\* a blog post has been scored 0.1 by the configured table, against the
\* built-in 0.3
C17_Witness ==
    /\ ScoreReturned(score_call)
    /\ score_args.provenance.document_type = "blog_post"
    /\ "blog_post" \in DOMAIN ConfiguredDocumentTypeScores
    /\ ConfiguredDocumentTypeScores["blog_post"] # ClaimedDocumentTypeScores["blog_post"]
    /\ DocumentTypeOf(score_call).score = R(1, 10)

\* the other cases of the lookup happen: a type of the built-in table only, no
\* type at all, and a type of neither table
DocumentTypeLookupCases ==
    ScoreReturned(score_call) =>
        LET dt == score_args.provenance.document_type
            s == DocumentTypeOf(score_call).score
        IN  /\ (dt = "standard" /\ rules = get_default_rules) => s = R(85, 100)
            /\ (dt = NONE /\ "unknown" \notin DOMAIN ConfiguredDocumentTypeScores) =>
                   s = R(4, 10)
            /\ dt = "podcast" => s = R(5, 10)
            /\ (dt = "dataset" /\ rules = get_default_rules) => s = R(5, 10)

\* a score or a confidence within [0, 1]
InUnitInterval(x) == RLeq(RZero, x) /\ RLeq(x, R(1, 1))

SixScores == { "overall_score", "authority_score", "document_type_score", "review_score", "currency_score", "completeness_score" }

\* C18: with the default configuration every call of calculate_trust_scores
\* returns a TrustBlock with all six scores (overall, authority, document_type,
\* review, currency, completeness) present, each with its score and its
\* confidence within [0, 1].
C18_TrustBlockFullyPopulated ==
    (IsSome(score_call) /\ rules = get_default_rules) =>
        /\ ScoreReturned(score_call)
        /\ SixScores \subseteq DOMAIN TrustOf(score_call)
        /\ \A k \in SixScores :
               /\ IsSome(TrustOf(score_call)[k])
               /\ InUnitInterval(The(TrustOf(score_call)[k]).score)
               /\ InUnitInterval(The(TrustOf(score_call)[k]).confidence)

\* the default engine has scored a provenance with every checked field present
\* and content with references and citations: three completeness factors that
\* add up to more than 1 and average to less
C18_Witness ==
    /\ ScoreReturned(score_call)
    /\ rules = get_default_rules
    /\ DOMAIN CompletenessOf(score_call).dimensions
           = { "provenance_fields", "has_references", "has_citations" }
    /\ CompletenessOf(score_call).dimensions["provenance_fields"] = R(1, 1)
    /\ CompletenessOf(score_call).score = R(25, 30)
    /\ InUnitInterval(OverallOf(score_call).score)

(***************************************************************************)
(* analyze and the conversion of its report to a plain record and to JSON  *)
(***************************************************************************)
\* a field value json can encode as it is: a str, a number, a bool, a str
\* enumeration member, or a list or dict of these
Plain(v) == [ kind |-> "plain", v |-> v ]

\* DocumentLoader.extract_basic_metadata
extract_basic_metadata(filename) ==
    [ filename |-> PyStr(filename), file_extension |-> PyStr("extension"),
      file_size_bytes |-> PyNum(2048), created_timestamp |-> PyNum(1700000000),
      modified_timestamp |-> PyNum(1700000500), absolute_path |-> PyStr("path") ]

AnalyzedContents ==
    { <<>>, <<"Just some random text">>, <<"arXiv:2301.00001">>,
      <<"As shown in [1, 2] and (Smith, 2014)">>,
      <<"Quarterly results", "\n", "References">>,
      <<"  Stanford University ", "\n\n", "Contact: alice@mit.edu">> }

\* TextDocumentLoader.load_document
TextLoaderResults ==
    { [ content |-> c,
        metadata |-> [ mime_type |-> PyStr("text/plain"), file_hash |-> PyStr("sha256"),
                       character_count |-> PyNum(40), line_count |-> PyNum(2) ]
                     @@ extract_basic_metadata("notes.txt") ] : c \in AnalyzedContents }

\* PDFDocumentLoader.load_document: the info dictionary of the file holds
\* strings, its dates in the PDF date format
PdfInfos ==
    { [ k \in {} |-> PyNone ],
      [ author |-> PyStr("Dr. John Doe"), title |-> PyStr("Deep Nets"),
        keywords |-> PyStr("Patent; invention"),
        creationDate |-> PyStr("D:20200304100000Z") ] }

PdfLoaderResults ==
    { [ content |-> c,
        metadata |-> [ mime_type |-> PyStr("application/pdf"), file_hash |-> hash,
                       pdf_metadata |-> PyDict(info), page_count |-> PyNum(3),
                       author |-> DictGet(info, "author", PyNone),
                       title |-> DictGet(info, "title", PyNone),
                       subject |-> DictGet(info, "subject", PyNone),
                       keywords |-> DictGet(info, "keywords", PyNone),
                       creator |-> DictGet(info, "creator", PyNone),
                       producer |-> DictGet(info, "producer", PyNone),
                       creation_date |-> DictGet(info, "creationDate", PyNone),
                       modification_date |-> DictGet(info, "modDate", PyNone) ]
                     @@ extract_basic_metadata("Annual_Report.pdf") ] :
        c \in AnalyzedContents, info \in PdfInfos, hash \in { PyNone, PyStr("sha256") } }

\* DOCXDocumentLoader.load_document: the core properties give a str for the
\* text properties and a datetime or None for created and modified
DocxLoaderResults ==
    { [ content |-> c,
        metadata |-> [ mime_type |-> PyStr("application/docx"), file_hash |-> PyStr("sha256"),
                       author |-> PyStr(author), title |-> PyStr(title),
                       subject |-> PyStr(""), keywords |-> PyStr(""),
                       last_modified_by |-> PyStr(author),
                       created |-> created, modified |-> modified,
                       category |-> PyStr(""), comments |-> PyStr(""),
                       paragraph_count |-> PyNum(2) ]
                     @@ extract_basic_metadata("memo.docx") ] :
        c \in AnalyzedContents, author \in { "", "Jane Smith" }, title \in { "", "Deep Nets" },
        created \in { PyNone, PyDatetime(Date(2020, 3, 4)) },
        modified \in { PyNone, PyDatetime(Date(2021, 7, 9)) } }

LoaderResults == TextLoaderResults \cup PdfLoaderResults \cup DocxLoaderResults

\* _check_for_references and _check_for_citations; no pattern matches across a
\* newline of the contents analyzed
check_for_references(content) == SearchText("references_header", content)
check_for_citations(content) == SearchText("citation_patterns", content)

\* _build_identity_block; the document id is a fresh uuid4 string
build_identity_block(metadata) ==
    [ document_id |-> PyStr("uuid4"),
      original_filename |-> metadata["filename"],
      file_size_bytes |-> DictGet(metadata, "file_size_bytes", PyNone),
      mime_type |-> DictGet(metadata, "mime_type", PyNone),
      file_hash |-> IF DictGet(metadata, "file_hash", PyNone) = PyNone
                    THEN PyStr("sha256") ELSE metadata["file_hash"] ]

\* _build_content_block; the language is what langdetect answers, a str
build_content_block(content, metadata) ==
    [ language |-> PyStr("language"), word_count |-> PyNum(Len(content)),
      page_count |-> IF Truthy(DictGet(metadata, "page_count", PyNone))
                     THEN metadata["page_count"]
                     ELSE DictGet(metadata, "paragraph_count", PyNone),
      keywords |-> IF Truthy(DictGet(metadata, "keywords", PyNone))
                   THEN Plain([ split |-> metadata["keywords"].s, sep |-> ";" ])
                   ELSE Plain(<<>>),
      has_references |-> Plain(check_for_references(content)),
      has_citations |-> Plain(check_for_citations(content)) ]

\* _build_technical_block: the loader's metadata without bytes and None values
build_technical_block(metadata, now) ==
    [ schema_version |-> PyStr("1.0.0"),
      processing_timestamp |-> [ kind |-> "datetime", instant |-> now ],
      processor_version |-> PyStr("0.1.0"),
      raw_metadata |-> [ k \in { key \in DOMAIN metadata :
                                   metadata[key].kind \notin { "bytes", "none" } }
                           |-> metadata[k] ] ]

\* analyze, step 8: the report, from the results of the three stages
build_report(loaded, now, inferred, trust) ==
    [ raised |-> NONE,
      report |->
        Some([ identity |-> build_identity_block(loaded.metadata),
               provenance |-> The(inferred.provenance),
               content |-> build_content_block(loaded.content, loaded.metadata),
               trust |-> trust,
               ai_use |-> determine_policy(The(inferred.provenance), trust),
               explainability |->
                   [ inference_sources |-> inferred.self.inference_sources,
                     confidence_scores |-> The(inferred.explainability).confidence_scores,
                     warnings |-> The(inferred.explainability).warnings ],
               technical |-> build_technical_block(loaded.metadata, now) ]) ]

\* analyze, steps 6 to 8, once the trust scores are calculated
analyze_scored(loaded, now, inferred, scored) ==
    IF scored.raised # NONE THEN [ raised |-> scored.raised, report |-> Nothing ]
    ELSE build_report(loaded, now, inferred, The(scored.trust))

\* analyze, steps 4 to 8, once the provenance is inferred; the scoring engine
\* is built from config.get("trust_rules")
analyze_inferred(loaded, now, year, config, inferred) ==
    IF inferred.raised # NONE THEN [ raised |-> inferred.raised, report |-> Nothing ]
    ELSE analyze_scored(loaded, now, inferred,
             calculate_trust_scores(TrustScoringEngine_init(Get(config, "trust_rules")),
                 The(inferred.provenance),
                 [ has_references |-> check_for_references(loaded.content),
                   has_citations |-> check_for_citations(loaded.content),
                   word_count |-> TRUE ],
                 year))

\* _load_config(config_path) if config_path else {}, for a file that exists
\* and parses to a dict
load_config(file) == IF file = Nothing THEN <<>> ELSE The(file)

\* analyze on what the loader returned and what the configuration file holds
analyze(loaded, now, year, file) ==
    IF TextStrip(loaded.content) \in { <<>>, <<"">> }
    THEN [ raised |-> "ValueError", report |-> Nothing ]
    ELSE analyze_inferred(loaded, now, year, load_config(file),
             infer_from_metadata(1, ProvenanceInferencer_init, loaded.content,
                                 loaded.metadata, now, 0))

\* datetime.isoformat(): the value becomes a str
Pad2(n) == IF n < 10 THEN "0" \o ToString(n) ELSE ToString(n)
isoformat(date) ==
    PyStr(ToString(date.year) \o "-" \o Pad2(date.month) \o "-" \o Pad2(date.day) \o "T00:00:00")
isoformat_instant(instant) == PyStr("instant " \o ToString(instant))

\* ProvenanceBlock.to_dict: asdict, then every top-level datetime to a str
ProvenanceBlock_to_dict(p) ==
    PyDict([ document_type |-> Plain(p.document_type), title |-> Plain(p.title),
             authors |-> Plain(p.authors), institutions |-> Plain(p.institutions),
             publishers |-> Plain(<<>>),
             publication_date |-> IF IsSome(p.publication_date)
                                  THEN isoformat(The(p.publication_date)) ELSE PyNone,
             retrieved_date |-> IF IsSome(p.retrieved_date)
                                THEN isoformat_instant(The(p.retrieved_date)) ELSE PyNone,
             version |-> PyNone, review_status |-> Plain(p.review_status),
             citation |-> Plain(p.citation) ])

\* TechnicalBlock.to_dict: asdict, then processing_timestamp to a str; the
\* values of raw_metadata are copied as they are
TechnicalBlock_to_dict(t) ==
    PyDict([ schema_version |-> t.schema_version,
             processing_timestamp |-> isoformat_instant(t.processing_timestamp.instant),
             processor_version |-> t.processor_version,
             raw_metadata |-> PyDict(t.raw_metadata) ])

\* ProvenanceReport.to_dict; the blocks without a date field go through asdict
ProvenanceReport_to_dict(report) ==
    PyDict([ identity |-> PyDict(report.identity),
             provenance |-> ProvenanceBlock_to_dict(report.provenance),
             content |-> PyDict(report.content),
             trust |-> Plain(report.trust),
             ai_use |-> Plain(report.ai_use),
             explainability |-> Plain(report.explainability),
             technical |-> TechnicalBlock_to_dict(report.technical) ])

\* a datetime object somewhere in the record
RECURSIVE HasDatetime(_)
HasDatetime(node) ==
    \/ node.kind = "datetime"
    \/ node.kind = "dict" /\ \E k \in DOMAIN node.d : HasDatetime(node.d[k])

\* json.dumps: a datetime is not JSON serializable
json_dumps(node) ==
    IF HasDatetime(node) THEN [ raised |-> "TypeError", value |-> Nothing ]
    ELSE [ raised |-> NONE, value |-> Some([ json_of |-> node ]) ]

\* ProvenanceReport.to_json
ProvenanceReport_to_json(report) == json_dumps(ProvenanceReport_to_dict(report))

InitAnalyze ==
    /\ IdleScore
    /\ IdlePolicy
    /\ inferencers = <<>>
    /\ hash_seed = <<>>
    /\ clock = 0
    /\ infer_input \in LoaderResults
    /\ infer_calls = <<>>
    /\ threads = <<>>
    /\ IdleApi
    /\ IdleCache

\* analyze(file_path) on the file the loader read
Analyze ==
    /\ analyze_call = Nothing
    /\ analyze_call' = Some([ loaded |-> infer_input, json |-> Nothing,
                              restored |-> Nothing ]
                            @@ analyze(infer_input, clock, now_year, config_file))
    /\ clock' = clock + 1
    /\ UNCHANGED <<scoreVars, policyVars, inferencers, hash_seed, infer_input, infer_calls,
                   threads, config_file, cacheVars>>

\* report.to_json() on the report analyze returned
ReportToJson ==
    /\ IsSome(analyze_call)
    /\ The(analyze_call).raised = NONE
    /\ The(analyze_call).json = Nothing
    /\ analyze_call' = Some([ The(analyze_call) EXCEPT
                                !.json = Some(ProvenanceReport_to_json(
                                            The(The(analyze_call).report))) ])
    /\ UNCHANGED <<scoreVars, policyVars, inferVars, config_file, cacheVars>>

NextAnalyze == Analyze \/ ReportToJson
SpecAnalyze == InitAnalyze /\ [][NextAnalyze]_vars

AnalyzeReturned == IsSome(analyze_call) /\ The(analyze_call).raised = NONE
AnalyzedReport == The(The(analyze_call).report)
JsonCalled == AnalyzeReturned /\ IsSome(The(analyze_call).json)

\* C19: the plain record to_dict makes of a report analyze returned has no
\* datetime object in any block, technical.raw_metadata included, and to_json
\* returns for the report of a text, a PDF and a DOCX file.
C19_ReportSerializes ==
    /\ AnalyzeReturned => ~HasDatetime(ProvenanceReport_to_dict(AnalyzedReport))
    /\ JsonCalled => The(The(analyze_call).json).raised = NONE

\* to_json has raised on the report of a DOCX file whose core properties hold
\* a creation date, and the dates of the provenance block are strings
C19_Witness ==
    /\ JsonCalled
    /\ The(The(analyze_call).json).raised = "TypeError"
    /\ The(analyze_call).loaded.metadata["created"].kind = "datetime"
    /\ ProvenanceReport_to_dict(AnalyzedReport).d["technical"].d["raw_metadata"].d["created"].kind = "datetime"
    /\ ProvenanceReport_to_dict(AnalyzedReport).d["provenance"].d["publication_date"].kind = "str"
    /\ ProvenanceReport_to_dict(AnalyzedReport).d["technical"].d["processing_timestamp"].kind = "str"

\* the dates outside raw_metadata are strings, and a report whose loader gave
\* no datetime object serializes
DatesOfTheBlocksAreStrings ==
    AnalyzeReturned =>
        LET record == ProvenanceReport_to_dict(AnalyzedReport)
            loaded == The(analyze_call).loaded.metadata
        IN  /\ ~HasDatetime(record.d["provenance"])
            /\ record.d["technical"].d["processing_timestamp"].kind = "str"
            /\ (\A k \in DOMAIN loaded : loaded[k].kind # "datetime") =>
                   /\ ~HasDatetime(record)
                   /\ JsonCalled => The(The(analyze_call).json).raised = NONE

\* the branch of the institution loop an institution takes
InstitutionBranch(institution) ==
    IF ClaimedCandidate(institution) = R(8, 10) THEN "academic_gov_institution"
    ELSE IF ClaimedCandidate(institution) = R(6, 10) THEN "corporate_institution"
    ELSE "other_institution"

\* the heuristic branches a call on the provenance executes, in order
ExecutedBranches(p) ==
    [ i \in DOMAIN p.institutions |-> InstitutionBranch(p.institutions[i]) ]
    \o (IF Len(p.authors) > 1 THEN <<"multiple_authors">> ELSE <<>>)
    \o (IF Credentialed(p.authors) THEN <<"author_with_credentials">> ELSE <<>>)

\* the branches that assign rule_applied
TaggingBranches == { "academic_gov_institution", "corporate_institution", "multiple_authors", "author_with_credentials" }

RECURSIVE LastTagging(_)
LastTagging(branches) ==
    IF branches = <<>> THEN NONE
    ELSE IF branches[Len(branches)] \in TaggingBranches THEN branches[Len(branches)]
    ELSE LastTagging(SubSeq(branches, 1, Len(branches) - 1))

\* C20 (amended): the rule_applied tag of the authority score names the last
\* branch executed among government/academic institution, corporate
\* institution, multiple-authors and author-credentials, taken in the order
\* institutions in list order, then multiple-authors, then author-credentials;
\* an institution of neither class leaves the tag as it is.  When none of the
\* four executed the tag is "institution_analysis" if there are institutions
\* and "default_neutral" if there are none.
C20_RuleAppliedIsLastTaggingBranch ==
    ScoreReturned(score_call) =>
        LET p == score_args.provenance
            last == LastTagging(ExecutedBranches(p))
        IN  AuthorityOf(score_call).rule_applied =
                IF last # NONE THEN last
                ELSE IF p.institutions # <<>> THEN "institution_analysis"
                ELSE "default_neutral"

\* C20 as stated: the tag names the last branch that executed, the branch of an
\* institution of neither class included (whose tag then names no other
\* branch), and is "default_neutral" only when no branch executed.
C20_AsStated ==
    ScoreReturned(score_call) =>
        LET branches == ExecutedBranches(score_args.provenance)
            tag == AuthorityOf(score_call).rule_applied
        IN  IF branches = <<>> THEN tag = "default_neutral"
            ELSE IF branches[Len(branches)] \in TaggingBranches
            THEN tag = branches[Len(branches)]
            ELSE tag \notin TaggingBranches \cup { "default_neutral" }

\* an academic institution followed by one of neither class: the last branch
\* executed is the other-institution branch and the tag is the academic one;
\* the tag is independent of the score as well
C20_Witness ==
    /\ ScoreReturned(score_call)
    /\ Len(ExecutedBranches(score_args.provenance)) = 2
    /\ ExecutedBranches(score_args.provenance)[1] = "academic_gov_institution"
    /\ ExecutedBranches(score_args.provenance)[2] = "other_institution"
    /\ AuthorityOf(score_call).rule_applied = "academic_gov_institution"

\* the tag can name a branch that did not produce the score: a corporate
\* institution after an academic one is tagged corporate and scored 0.8
TagIndependentOfScore ==
    (/\ ScoreReturned(score_call)
     /\ score_args.provenance.authors = <<>>
     /\ Len(score_args.provenance.institutions) = 2
     /\ InstitutionBranch(score_args.provenance.institutions[1]) = "academic_gov_institution"
     /\ InstitutionBranch(score_args.provenance.institutions[2]) = "corporate_institution") =>
        /\ AuthorityOf(score_call).rule_applied = "corporate_institution"
        /\ AuthorityOf(score_call).score = R(8, 10)

(***************************************************************************)
(* Author inference over the metadata sources                              *)
(***************************************************************************)
\* metadata with an explicit author, an embedded author, both and neither
AuthorMetadatas ==
    { <<>>,
      [ author |-> PyStr("Jane Smith") ],
      [ author |-> PyStr("") ],
      [ author |-> PyNone ],
      [ pdf_metadata |-> PyDict([ author |-> PyStr("Dr. John Doe") ]) ],
      [ pdf_metadata |-> PyDict(<<>>) ],
      [ author |-> PyStr("Jane Smith"),
        pdf_metadata |-> PyDict([ author |-> PyStr("Jane Smith") ]) ],
      [ author |-> PyStr("Jane Smith"),
        pdf_metadata |-> PyDict([ author |-> PyStr("Dr. John Doe") ]) ] }

AuthorContents ==
    { <<"Just some random text">>,
      <<"Authors: Dr. Alice, Dr. Bob", "\n\n", "Abstract">>,
      <<"Abstract", "\n", "Authors: Dr. Alice, Dr. Bob">>,
      <<"arXiv:2301.00001", "\n", "Authors: Dr. Alice, Dr. Bob">>,
      <<"Jane Roe, PhD">>,
      <<"Abstract">>,
      <<"  Stanford University ", "\n\n", "Contact: alice@mit.edu">> }

AuthorInputs == { [ content |-> c, metadata |-> m ] : c \in AuthorContents, m \in AuthorMetadatas }

SpecAuthors == InitInferOver(AuthorInputs, {0}) /\ [][NextInfer]_vars

\* the sources of the claim, read off the input
ExplicitAuthor(metadata) ==
    IF "author" \in DOMAIN metadata /\ metadata["author"].kind = "str"
       /\ metadata["author"].s # ""
    THEN <<metadata["author"].s>> ELSE <<>>

EmbeddedAuthor(metadata) ==
    IF "pdf_metadata" \in DOMAIN metadata /\ metadata["pdf_metadata"].kind = "dict"
       /\ "author" \in DOMAIN metadata["pdf_metadata"].d
       /\ metadata["pdf_metadata"].d["author"].kind = "str"
       /\ metadata["pdf_metadata"].d["author"].s # ""
    THEN <<metadata["pdf_metadata"].d["author"].s>> ELSE <<>>

\* the first of the first ten lines that carries an author label, stripped
LabelLine(content) ==
    LET lines == SplitLines(content)
        labelled == { i \in DOMAIN lines :
                        /\ i <= 10
                        /\ Strip(lines[i]) # ""
                        /\ RegexSearch("author_label", Lower(Strip(lines[i]))) }
    IN  IF labelled = {} THEN <<>>
        ELSE <<Strip(lines[CHOOSE i \in labelled : \A j \in labelled : i <= j])>>

AuthorsTagged(call, authors, tag) ==
    /\ InferredProvenance(call).authors = authors
    /\ TrailOf(call)[2] = "authors: " \o tag

\* C21: the authors of a call that returns come from the first source that
\* matches, in the order explicit metadata.author, embedded document metadata
\* author, content label line, and the tag names that source: with a
\* metadata.author the tag is "metadata_author_field", the content is used only
\* when neither metadata source gave an author, and without a match the list is
\* empty.
C21_AuthorsFirstSourceWins ==
    \A i \in DOMAIN infer_calls :
        InferReturned(infer_calls[i]) =>
            LET call == infer_calls[i]
                explicit == ExplicitAuthor(call.input.metadata)
                embedded == EmbeddedAuthor(call.input.metadata)
                label == LabelLine(call.input.content)
            IN  IF explicit # <<>> THEN AuthorsTagged(call, explicit, "metadata_author_field")
                ELSE IF embedded # <<>> THEN AuthorsTagged(call, embedded, "pdf_metadata")
                ELSE IF label # <<>> THEN AuthorsTagged(call, label, "content_analysis")
                ELSE InferredProvenance(call).authors = <<>>

\* a call on metadata whose explicit and embedded authors differ has returned
\* both authors under the tag of the embedded source
C21_Witness ==
    \E i \in DOMAIN infer_calls :
        /\ InferReturned(infer_calls[i])
        /\ ExplicitAuthor(infer_calls[i].input.metadata) = <<"Jane Smith">>
        /\ EmbeddedAuthor(infer_calls[i].input.metadata) = <<"Dr. John Doe">>
        /\ AuthorsTagged(infer_calls[i], <<"Jane Smith", "Dr. John Doe">>, "pdf_metadata")

\* what the code does: the two metadata sources are merged without repetition
\* under the tag of the one that added last, and the content is used only when
\* both gave nothing
AuthorsMergeMetadataSources ==
    \A i \in DOMAIN infer_calls :
        InferReturned(infer_calls[i]) =>
            LET call == infer_calls[i]
                explicit == ExplicitAuthor(call.input.metadata)
                embedded == EmbeddedAuthor(call.input.metadata)
                label == LabelLine(call.input.content)
            IN  IF embedded # <<>> /\ embedded # explicit
                THEN AuthorsTagged(call, explicit \o embedded, "pdf_metadata")
                ELSE IF explicit # <<>>
                THEN AuthorsTagged(call, explicit, "metadata_author_field")
                ELSE IF label # <<>> THEN AuthorsTagged(call, label, "content_analysis")
                ELSE AuthorsTagged(call, <<>>, "metadata_extraction")

(***************************************************************************)
(* Review status inference over the keyword sets                           *)
(***************************************************************************)
ReviewContents ==
    { <<"arXiv:2301.00001", "\n", "This paper was peer-reviewed">>,
      <<"arXiv:2301.00001", "\n", "Report no. 7">>,
      <<"This paper was peer-reviewed">>,
      <<"Refereed edition">>,
      <<"Journal of Testing, Vol. 3, pp. 1-9">>,
      <<"See https://doi.org/abc">>,
      <<"Report no. 7">>,
      <<"Report no. 7", "\n", "Abstract">>,
      <<"Issue no. 5 of my blog">>,
      <<"Posted on my blog, 2023-05-17">>,
      <<"Read it on medium.com">>,
      <<"This paper was peer-reviewed", "\n\n", "Posted on my blog, 2023-05-17">>,
      <<"Journal of Testing, Vol. 3, pp. 1-9", "\n", "Read it on medium.com">>,
      <<"Just some random text">> }

ReviewMetadatas ==
    { <<>>,
      [ filename |-> PyStr("notes.txt") ],
      [ filename |-> PyStr("patent_report.pdf") ],
      [ title |-> PyStr("Deep Nets") ] }

ReviewInputs == { [ content |-> c, metadata |-> m ] : c \in ReviewContents, m \in ReviewMetadatas }

SpecReview == InitInferOver(ReviewInputs, {0}) /\ [][NextInfer]_vars

peer_review_phrases == { "peer-reviewed", "reviewed by", "refereed", "this paper was reviewed" }
journal_indicators == { "journal of", "vol.", "no.", "pp.", "doi.org" }
journal_indicators_as_stated == { "journal of", "vol.", "pp.", "doi.org" }
blog_indicators == { "posted on", "blog", "medium.com" }

\* the status the precedence gives to a call, with the given journal keywords
ReviewByPrecedence(call, journal) ==
    IF InferredProvenance(call).document_type = "preprint" THEN "unreviewed"
    ELSE IF Mentions(call.input.content, peer_review_phrases) THEN "peer_reviewed"
    ELSE IF Mentions(call.input.content, journal) THEN "peer_reviewed"
    ELSE IF Mentions(call.input.content, blog_indicators) THEN "self_published"
    ELSE "unreviewed"

\* C22, as stated: the review status follows the precedence preprint type,
\* peer-review phrase, journal keyword out of "journal of", "vol.", "pp.",
\* "doi.org", blog indicator, else unreviewed; content matching none of the
\* sets is never peer-reviewed.
C22_AsStated ==
    \A i \in DOMAIN infer_calls :
        InferReturned(infer_calls[i]) =>
            /\ InferredProvenance(infer_calls[i]).review_status
                 = ReviewByPrecedence(infer_calls[i], journal_indicators_as_stated)
            /\ ~Mentions(infer_calls[i].input.content,
                         peer_review_phrases \cup journal_indicators_as_stated
                           \cup blog_indicators)
                 => InferredProvenance(infer_calls[i]).review_status # "peer_reviewed"

\* C22, corrected: the review status follows the precedence preprint type,
\* peer-review phrase, journal keyword out of "journal of", "vol.", "no.",
\* "pp.", "doi.org", blog indicator, else unreviewed; content matching none of
\* the sets is never peer-reviewed.
C22_ReviewStatusPrecedence ==
    \A i \in DOMAIN infer_calls :
        InferReturned(infer_calls[i]) =>
            /\ InferredProvenance(infer_calls[i]).review_status
                 = ReviewByPrecedence(infer_calls[i], journal_indicators)
            /\ ~Mentions(infer_calls[i].input.content,
                         peer_review_phrases \cup journal_indicators \cup blog_indicators)
                 => InferredProvenance(infer_calls[i]).review_status # "peer_reviewed"

\* a document that is no preprint, with "no." as its only keyword, has come
\* back peer-reviewed
C22_Witness ==
    \E i \in DOMAIN infer_calls :
        /\ InferReturned(infer_calls[i])
        /\ infer_calls[i].input.content = <<"Report no. 7">>
        /\ InferredProvenance(infer_calls[i]).document_type # "preprint"
        /\ InferredProvenance(infer_calls[i]).review_status = "peer_reviewed"
        /\ TrailOf(infer_calls[i])[6] = "review_status: journal_formatting"

\* the trail names one of the five steps of the precedence
ReviewPrecedenceCases ==
    \A i \in DOMAIN infer_calls :
        InferReturned(infer_calls[i]) =>
            TrailOf(infer_calls[i])[6] \in
                { "review_status: " \o tag :
                    tag \in { "preprint_implication", "explicit_peer_review_mention",
                              "journal_formatting", "blog_formatting", "default_unreviewed" } }

(***************************************************************************)
(* Publication date inference over the date sources                        *)
(***************************************************************************)
DateContents ==
    { <<"Just some random text">>,
      <<"Copyright 2021">>,
      <<"Date: 05/17/2023">>,
      <<"Released 2022-11-30, revised 2024">>,
      <<"Posted on my blog, 2023-05-17">>,
      <<"doi:10.1000/xyz123">>,
      <<"arXiv:2301.00001", "\n", "Posted on my blog, 2023-05-17">>,
      <<"Copyright 2021", "\n", "Released 2022-11-30, revised 2024">>,
      <<"Copyright 2021", "\n\n", "Date: 05/17/2023">>,
      <<"Date: 05/17/2023", "\n", "Copyright 2021">> }

DateMetadatas ==
    { <<>>,
      [ created |-> PyStr("2020-03-04T10:00:00") ],
      [ created |-> PyStr("not a date") ],
      [ created |-> PyStr("not a date"), modified |-> PyStr("2019-01-01") ],
      [ created |-> PyNone, creation_date |-> PyStr("2019-01-01"),
        modification_date |-> PyStr("2020-03-04T10:00:00") ],
      [ modified |-> PyDatetime(Date(2020, 3, 4)) ] }

DateInputs == { [ content |-> c, metadata |-> m ] : c \in DateContents, m \in DateMetadatas }

SpecDates == InitInferOver(DateInputs, {0}) /\ [][NextInfer]_vars

\* the date of the first metadata field, in the order of the fields, whose
\* value is set and parses; <<>> when there is none
FieldDate(metadata) ==
    LET parses(f) == /\ f \in DOMAIN metadata
                     /\ \/ metadata[f].kind = "datetime"
                        \/ metadata[f].kind = "str" /\ FromIsoPrefix(metadata[f].s) # <<>>
        first == { i \in DOMAIN date_fields :
                     /\ parses(date_fields[i])
                     /\ \A j \in 1..(i - 1) : ~parses(date_fields[j]) }
    IN  IF first = {} THEN <<>>
        ELSE LET f == date_fields[CHOOSE i \in first : TRUE]
             IN  IF metadata[f].kind = "datetime" THEN <<metadata[f].date>>
                 ELSE FromIsoPrefix(metadata[f].s)

\* the first pattern, in the order of the patterns, that matches in the content;
\* 0 when none does
FirstPatternMatching(content) ==
    LET matching == { i \in DOMAIN DATE_PATTERNS : FindallText(DATE_PATTERNS[i], content) # <<>> }
    IN  IF matching = {} THEN 0 ELSE CHOOSE i \in matching : \A j \in matching : i <= j

\* the year of the first match of the first pattern that matches
FirstPatternYear(content) ==
    LET i == FirstPatternMatching(content)
    IN  MatchedYear(DATE_PATTERNS[i], FindallText(DATE_PATTERNS[i], content)[1])

\* C23: the publication date of a call that returns comes from the first source
\* that yields a date: the metadata fields created, modified, creation_date,
\* modification_date, a value that does not parse being skipped, then the
\* patterns YYYY-MM-DD, MM/DD/YYYY and bare year in the content; the year of
\* the result is the year of the first pattern that matched, a bare year
\* resolves to January 1, and the result is none only when no source matches.
C23_PublicationDateFirstSource ==
    \A i \in DOMAIN infer_calls :
        InferReturned(infer_calls[i]) =>
            LET call == infer_calls[i]
                content == call.input.content
                date == InferredProvenance(call).publication_date
                field == FieldDate(call.input.metadata)
                pattern == FirstPatternMatching(content)
            IN  IF field # <<>> THEN date = field
                ELSE IF pattern # 0
                THEN /\ IsSome(date)
                     /\ The(date).year = FirstPatternYear(content)
                     /\ DATE_PATTERNS[pattern] = "DATE_YEAR"
                          => The(date).month = 1 /\ The(date).day = 1
                ELSE date = Nothing

\* a call without a metadata date, on content whose first 4-digit run is not
\* the year of its YYYY-MM-DD date, has returned January 1 of that run
C23_Witness ==
    \E i \in DOMAIN infer_calls :
        /\ InferReturned(infer_calls[i])
        /\ FieldDate(infer_calls[i].input.metadata) = <<>>
        /\ infer_calls[i].input.content
             = <<"arXiv:2301.00001", "\n", "Posted on my blog, 2023-05-17">>
        /\ FirstPatternYear(infer_calls[i].input.content) = 2023
        /\ InferredProvenance(infer_calls[i]).publication_date = Some(Date(2301, 1, 1))
        /\ TrailOf(infer_calls[i])[4] = "publication_date: year_pattern_in_content"

\* what the code does: a metadata field first; else January 1 of the first
\* 4-digit run of the content, whatever the run belongs to, when that run is a
\* year from 1 to 9999; else none
DateIsFieldOrFirstFourDigits ==
    \A i \in DOMAIN infer_calls :
        InferReturned(infer_calls[i]) =>
            LET call == infer_calls[i]
                date == InferredProvenance(call).publication_date
                field == FieldDate(call.input.metadata)
                runs == FindallText("DATE_YEAR", call.input.content)
            IN  IF field # <<>> THEN date = field
                ELSE IF runs # <<>> /\ MatchedYear("DATE_YEAR", runs[1]) \in 1..9999
                THEN date = Some(Date(MatchedYear("DATE_YEAR", runs[1]), 1, 1))
                ELSE date = Nothing

(***************************************************************************)
(* C24: the synthesized citation                                           *)
(***************************************************************************)
\* the names separated by "; ", every one of them
RECURSIVE JoinedBySemicolon(_)
JoinedBySemicolon(names) ==
    IF names = <<>> THEN <<>>
    ELSE IF Len(names) = 1 THEN names
    ELSE <<Head(names), "; ">> \o JoinedBySemicolon(Tail(names))

CitationAsClaimed(p) ==
    JoinedBySemicolon(p.authors)
    \o <<" (">>
    \o <<IF p.publication_date = Nothing THEN "n.d."
         ELSE ToString(The(p.publication_date).year)>>
    \o <<"). ", p.title>>
    \o (IF p.institutions = <<>> THEN <<>> ELSE <<". ">> \o p.institutions[1])

\* C24: the citation of a call that returns is none exactly when the inferred
\* authors are empty or the title is absent; otherwise it is the authors joined
\* by "; ", the publication year or "n.d." in parentheses, the title, and the
\* first institution when there is one, all of the same call, and the trail tag
\* is "generated_from_provenance".
C24_CitationFromInferredFields ==
    \A i \in DOMAIN infer_calls :
        InferReturned(infer_calls[i]) =>
            LET p == InferredProvenance(infer_calls[i])
            IN  /\ p.citation = Nothing <=> (p.authors = <<>> \/ p.title = NONE)
                /\ p.citation # Nothing =>
                     /\ The(p.citation) = CitationAsClaimed(p)
                     /\ TrailOf(infer_calls[i])[7] = "citation: generated_from_provenance"

\* a call has returned a citation of two authors, a title and an institution
C24_Witness ==
    \E i \in DOMAIN infer_calls :
        /\ InferReturned(infer_calls[i])
        /\ Len(InferredProvenance(infer_calls[i]).authors) = 2
        /\ InferredProvenance(infer_calls[i]).institutions # <<>>
        /\ InferredProvenance(infer_calls[i]).citation # Nothing
        /\ TrailOf(infer_calls[i])[7] = "citation: generated_from_provenance"

\* the inferred authors are never more than the three the citation takes, and
\* an inferred title is never the empty string
CitationTakesEveryAuthor ==
    \A i \in DOMAIN infer_calls :
        InferReturned(infer_calls[i]) =>
            /\ Len(InferredProvenance(infer_calls[i]).authors) <= 3
            /\ InferredProvenance(infer_calls[i]).title # ""

(***************************************************************************)
(* C25: the preprint note of the policy conditions                         *)
(***************************************************************************)
\* provenance of every document type under every review status the schema has,
\* among them what inference returns for a preprint: type PREPRINT, status
\* UNREVIEWED
PreprintProvenances ==
    { ProvenanceBlock(dt, "Deep Nets", <<"Jane Smith">>, <<>>, Nothing, rs, Nothing) :
        dt \in DocumentType \cup {NONE}, rs \in ReviewStatus \cup {NONE} }

InitPreprint ==
    /\ IdleScore
    /\ \E provenance \in PreprintProvenances, trust \in PolicyTrusts :
           policy_args = Some([ provenance |-> provenance, trust |-> trust ])
    /\ policy_call = Nothing
    /\ IdleInfer
    /\ IdleApi
    /\ IdleCache

SpecPreprint == InitPreprint /\ [][NextPolicy]_vars

InferredPreprint ==
    ProvenanceBlock("preprint", "Deep Nets", <<"Jane Smith">>, <<>>, Nothing, "unreviewed",
                    Nothing)

\* C25: the conditions that determine_policy returns for a document whose
\* provenance marks it as a preprint contain the note "Preprint - not peer
\* reviewed".
C25_PreprintNoteAdded ==
    (IsSome(policy_call) /\ The(policy_args).provenance.document_type = "preprint")
        => InSeq("Preprint - not peer reviewed", The(policy_call).conditions)

\* determine_policy has run on the provenance inference returns for a preprint
\* and its conditions are without the note
C25_Witness ==
    /\ IsSome(policy_call)
    /\ The(policy_args).provenance = InferredPreprint
    /\ ~InSeq("Preprint - not peer reviewed", The(policy_call).conditions)

\* no review status of the schema has the value the condition compares with, so
\* no provenance gets the note
PreprintNoteNeverAdded ==
    /\ "preprint" \notin ReviewStatus
    /\ IsSome(policy_call) => ~InSeq("Preprint - not peer reviewed", The(policy_call).conditions)

(***************************************************************************)
(* C26: the completeness score as a mean of factors                        *)
(***************************************************************************)
\* how many of the four provenance fields are present
PresentFields(p) ==
    Cardinality({ f \in { "authors", "title", "publication_date", "institutions" } :
                    CASE f = "authors" -> p.authors # <<>>
                      [] f = "title" -> p.title # NONE
                      [] f = "publication_date" -> p.publication_date # Nothing
                      [] f = "institutions" -> p.institutions # <<>> })

SuppliedTrue(content_metadata, key) ==
    key \in DOMAIN content_metadata /\ content_metadata[key] = TRUE

\* the factors that are computable, as a sequence
ComputableFactors(p, content_metadata) ==
    <<R(PresentFields(p), 4)>>
    \o (IF SuppliedTrue(content_metadata, "has_references") THEN <<R(8, 10)>> ELSE <<>>)
    \o (IF SuppliedTrue(content_metadata, "has_citations") THEN <<R(7, 10)>> ELSE <<>>)

RECURSIVE SumOfSeq(_)
SumOfSeq(seq) == IF seq = <<>> THEN RZero ELSE RAdd(Head(seq), SumOfSeq(Tail(seq)))

MeanOfFactors(factors) ==
    IF factors = <<>> THEN R(5, 10) ELSE RDiv(SumOfSeq(factors), R(Len(factors), 1))

\* C26: the completeness score of a returned TrustBlock is the arithmetic mean
\* of the computable factors: k/4 for the k of the four provenance fields that
\* are present, 0.8 when has_references is supplied as true, 0.7 when
\* has_citations is supplied as true; 0.5 when no factor is computable.
C26_CompletenessIsMeanOfFactors ==
    ScoreReturned(score_call) =>
        CompletenessOf(score_call).score
            = MeanOfFactors(ComputableFactors(score_args.provenance,
                                              score_args.content_metadata))

\* a provenance with three of the four fields has been scored with references
\* and citations supplied: (0.75 + 0.8 + 0.7) / 3 = 0.75
C26_Witness ==
    /\ ScoreReturned(score_call)
    /\ PresentFields(score_args.provenance) = 3
    /\ SuppliedTrue(score_args.content_metadata, "has_references")
    /\ SuppliedTrue(score_args.content_metadata, "has_citations")
    /\ CompletenessOf(score_call).score = R(3, 4)

\* the fraction of the fields is a factor of every call, 0/4 included, so the
\* 0.5 of the empty case is never returned for want of factors
FieldFractionAlwaysAFactor ==
    ScoreReturned(score_call) =>
        /\ "provenance_fields" \in DOMAIN CompletenessOf(score_call).dimensions
        /\ CompletenessOf(score_call).dimensions["provenance_fields"]
             = R(PresentFields(score_args.provenance), 4)

(***************************************************************************)
(* analyze with a configuration file                                       *)
(***************************************************************************)
\* the trust_scoring section of tests/conftest.py, sample_config_yaml
SampleTrustScoring ==
    [ weights |-> [ authority |-> R(35, 100), document_type |-> R(25, 100),
                    review |-> R(20, 100), currency |-> R(10, 100),
                    completeness |-> R(10, 100) ],
      document_type_scores |-> [ research_paper |-> R(95, 100),
                                 government_document |-> R(90, 100),
                                 blog_post |-> R(20, 100) ],
      review_scores |-> [ peer_reviewed |-> R(95, 100), self_published |-> R(30, 100) ] ]

SamplePolicy ==
    [ license_mappings |-> [ government_document |-> "public_domain",
                             arxiv_preprint |-> "CC_BY" ],
      trust_thresholds |-> [ high_trust |-> R(80, 100), medium_trust |-> R(60, 100) ] ]

\* the weights of tests/integration/test_full_pipeline.py, with tables added
PipelineTrustScoring ==
    [ weights |-> [ authority |-> R(4, 10), document_type |-> R(2, 10),
                    review |-> R(2, 10), currency |-> R(1, 10),
                    completeness |-> R(1, 10) ],
      document_type_scores |-> [ unknown |-> R(1, 10), research_paper |-> R(1, 1) ],
      review_scores |-> [ unreviewed |-> R(1, 10) ] ]

\* what a configuration file parses to: the files of the tests, the same rules
\* under the key trust_rules, and a file of an empty mapping
ConfigFiles ==
    { [ trust_scoring |-> SampleTrustScoring, policy |-> SamplePolicy ],
      [ trust_scoring |-> PipelineTrustScoring ],
      [ trust_rules |-> SampleTrustScoring ],
      [ trust_rules |-> PipelineTrustScoring, policy_rules |-> SamplePolicy ],
      <<>> }

InitAnalyzeConfig ==
    /\ IdleScore
    /\ IdlePolicy
    /\ inferencers = <<>>
    /\ hash_seed = <<>>
    /\ clock = 0
    /\ infer_input \in LoaderResults
    /\ infer_calls = <<>>
    /\ threads = <<>>
    /\ IdleCache
    /\ analyze_call = <<>>
    /\ config_file \in { Some(c) : c \in ConfigFiles }

SpecAnalyzeConfig == InitAnalyzeConfig /\ [][NextAnalyze]_vars

\* the trust block an engine built from the rules gives the report's provenance
TrustUnder(rules_config) ==
    calculate_trust_scores(TrustScoringEngine_init(rules_config),
        AnalyzedReport.provenance,
        [ has_references |-> check_for_references(The(analyze_call).loaded.content),
          has_citations |-> check_for_citations(The(analyze_call).loaded.content),
          word_count |-> TRUE ],
        now_year).trust

DefinesTrustScoring(file) ==
    /\ IsSome(file)
    /\ "trust_scoring" \in DOMAIN The(file)
    /\ { "weights", "document_type_scores", "review_scores" }
         \subseteq DOMAIN The(file)["trust_scoring"]

\* C27: when the configuration file defines trust_scoring weights and score
\* tables, the trust scores of the report analyze returns are those of a
\* scoring engine built with these values.
C27_ConfiguredScoringApplied ==
    (AnalyzeReturned /\ DefinesTrustScoring(config_file)) =>
        Some(AnalyzedReport.trust) = TrustUnder(Some(The(config_file)["trust_scoring"]))

\* analyze has returned under a file that defines trust_scoring, and the trust
\* block is the one of the built-in defaults, not the one of the file
C27_Witness ==
    /\ AnalyzeReturned
    /\ DefinesTrustScoring(config_file)
    /\ Some(AnalyzedReport.trust) = TrustUnder(Nothing)
    /\ Some(AnalyzedReport.trust) # TrustUnder(Some(The(config_file)["trust_scoring"]))

\* what the code does: the engine is built from the key trust_rules, and from
\* the built-in defaults when the file has no such key
ScoringReadsTrustRules ==
    AnalyzeReturned =>
        Some(AnalyzedReport.trust)
            = TrustUnder(IF IsSome(config_file) /\ "trust_rules" \in DOMAIN The(config_file)
                         THEN Some(The(config_file)["trust_rules"]) ELSE Nothing)

\* under the key trust_rules the configured values do reach the scores
TrustRulesChangeTheScores ==
    (AnalyzeReturned /\ IsSome(config_file) /\ "trust_rules" \in DOMAIN The(config_file))
        => Some(AnalyzedReport.trust) # TrustUnder(Nothing)

(***************************************************************************)
(* The round trip of a report through to_dict and from_dict                *)
(***************************************************************************)
BlockNames ==
    { "identity", "provenance", "content", "trust", "ai_use", "explainability", "technical" }

\* ProvenanceReport(): every block from its default factory; the document id
\* is a fresh uuid4 and the processing timestamp is the time of the call
ProvenanceReport_init(now) ==
    [ identity |-> [ document_id |-> PyStr("another uuid4"), original_filename |-> PyNone,
                     file_size_bytes |-> PyNone, mime_type |-> PyNone,
                     file_hash |-> PyNone ],
      provenance |-> ProvenanceBlock(NONE, NONE, <<>>, <<>>, Nothing, NONE, Nothing),
      content |-> [ language |-> PyNone, word_count |-> PyNone, page_count |-> PyNone,
                    keywords |-> Plain(<<>>), has_references |-> PyNone,
                    has_citations |-> PyNone ],
      trust |-> [ overall_score |-> Nothing, authority_score |-> Nothing,
                  document_type_score |-> Nothing, review_score |-> Nothing,
                  currency_score |-> Nothing, completeness_score |-> Nothing ],
      ai_use |-> AIUseBlock,
      explainability |-> [ inference_sources |-> <<>>, confidence_scores |-> <<>>,
                           warnings |-> <<>> ],
      technical |-> [ schema_version |-> PyStr("1.0.0"),
                      processing_timestamp |-> [ kind |-> "datetime", instant |-> now ],
                      processor_version |-> PyNone, raw_metadata |-> <<>> ] ]

\* ProvenanceReport.from_dict: `return cls()`, the data is not read
ProvenanceReport_from_dict(data, now) == ProvenanceReport_init(now)

\* ProvenanceReport.from_dict(report.to_dict()) on the report analyze returned
ReportFromDict ==
    /\ IsSome(analyze_call)
    /\ The(analyze_call).raised = NONE
    /\ The(analyze_call).restored = Nothing
    /\ analyze_call' = Some([ The(analyze_call) EXCEPT
                                !.restored = Some(ProvenanceReport_from_dict(
                                    ProvenanceReport_to_dict(The(The(analyze_call).report)),
                                    clock)) ])
    /\ UNCHANGED <<scoreVars, policyVars, inferVars, config_file, cacheVars>>

NextRoundTrip == Analyze \/ ReportFromDict
SpecRoundTrip == InitAnalyze /\ [][NextRoundTrip]_vars

Restored == AnalyzeReturned /\ IsSome(The(analyze_call).restored)
RestoredReport == The(The(analyze_call).restored)

\* C28: the report that from_dict makes of report.to_dict() carries, in each of
\* the seven blocks, the values of the original report.
C28_RoundTripKeepsTheBlocks ==
    Restored =>
        \A block \in BlockNames :
            ProvenanceReport_to_dict(RestoredReport).d[block]
                = ProvenanceReport_to_dict(AnalyzedReport).d[block]

\* a report with inferred institutions and a trust block has gone through the
\* round trip and has come back without them
C28_Witness ==
    /\ Restored
    /\ AnalyzedReport.provenance.institutions # <<>>
    /\ IsSome(AnalyzedReport.trust.overall_score)
    /\ RestoredReport.provenance.institutions = <<>>
    /\ RestoredReport.trust.overall_score = Nothing

\* what the code does: whatever the record holds, the restored report is the
\* report of the defaults, and no block of an analyzed report survives
RoundTripGivesTheDefaults ==
    Restored =>
        /\ \E now \in 0..clock : RestoredReport = ProvenanceReport_init(now)
        /\ \A block \in BlockNames :
               ProvenanceReport_to_dict(RestoredReport).d[block]
                   # ProvenanceReport_to_dict(AnalyzedReport).d[block]

(***************************************************************************)
(* C29: commercial use and the NON_COMMERCIAL_ONLY prohibition             *)
(***************************************************************************)
\* C29: in the policy determine_policy returns, commercial_use_allowed is
\* false exactly when NON_COMMERCIAL_ONLY is among the prohibited actions.
C29_CommercialFlagMatchesProhibition ==
    IsSome(policy_call) =>
        (The(policy_call).commercial_use_allowed = FALSE
            <=> InSeq("non_commercial_only", The(policy_call).prohibited_actions))

\* a government document of low trust has a policy that allows commercial use
\* and prohibits it
C29_Witness ==
    /\ IsSome(policy_call)
    /\ The(policy_args).provenance.document_type = "government_document"
    /\ ~HighTrust(The(policy_args).trust)
    /\ The(policy_call).license = "public_domain"
    /\ The(policy_call).commercial_use_allowed = TRUE
    /\ InSeq("non_commercial_only", The(policy_call).prohibited_actions)

\* one direction holds: a policy that forbids commercial use lists the
\* prohibition; the two disagree only under the public-domain license with
\* trust below 0.7
CommercialFlagOneWay ==
    IsSome(policy_call) =>
        /\ The(policy_call).commercial_use_allowed = FALSE
             => InSeq("non_commercial_only", The(policy_call).prohibited_actions)
        /\ (The(policy_call).commercial_use_allowed = TRUE
              /\ InSeq("non_commercial_only", The(policy_call).prohibited_actions))
             => (The(policy_call).license = "public_domain"
                   /\ ~HighTrust(The(policy_args).trust))

(***************************************************************************)
(* utils/caching.py: DocumentCache                                         *)
(* The cache directory is the set of its *.pkl files, each a key and a     *)
(* modification time.  The time of the file system advances between two    *)
(* writes or stands still, so two files can carry the same time.           *)
(***************************************************************************)
MaxSets == 4
MaxCacheSize == 2

\* the documents a caller caches results for, by name and size in bytes
Documents ==
    { [ name |-> "a.pdf", size |-> 9000 ], [ name |-> "b.pdf", size |-> 20000 ],
      [ name |-> "c.pdf", size |-> 8192 ], [ name |-> "notes.txt", size |-> 13 ] }

CacheFile(key, mtime) == [ key |-> key, mtime |-> mtime ]

\* what cache_dir holds when the cache is built: nothing, or the files a
\* cache of a larger max_size left there
InitialDirs ==
    { {},
      { CacheFile("md5 of a.pdf", 0) },
      { CacheFile("md5 of old1", 0), CacheFile("md5 of old2", 0), CacheFile("md5 of old3", 0) } }

\* get_cache_key: f.seek(-8192, 2) raises OSError on a file of fewer than 8192
\* bytes; the key is a digest of the sampled bytes, the size and the time
get_cache_key(doc) ==
    IF doc.size < 8192 THEN Raised("OSError")
    ELSE Returned("md5 of " \o doc.name, NONE)

\* len(cache_files) - self.max_size + 1, the length of the slice removed
EvictionCount(n, max_size) == n - max_size + 1

\* the sets of files the loop of lines 57-59 can remove: the first files of the
\* list sorted by st_mtime, files of equal time in the order glob gave them
EvictionChoices(files, max_size) ==
    IF Cardinality(files) >= max_size
    THEN { old \in SUBSET files :
             /\ Cardinality(old) = EvictionCount(Cardinality(files), max_size)
             /\ \A o \in old, f \in files \ old : o.mtime <= f.mtime }
    ELSE { {} }

\* open(cache_file, "wb"); pickle.dump(result, f)
WriteCacheFile(files, key, now) ==
    { f \in files : f.key # key } \cup { CacheFile(key, now) }

InitCache ==
    /\ IdleScore
    /\ IdlePolicy
    /\ IdleInfer
    /\ IdleApi
    /\ cache \in { [ max_size |-> m, files |-> dir, now |-> 1, sets |-> 0, stored |-> 0 ] :
                     m \in 1..MaxCacheSize, dir \in InitialDirs }
    /\ set_call = Nothing

\* DocumentCache.set(file_path, result), from its first line to its last
DocumentCache_set(doc) ==
    /\ cache.sets < MaxSets
    /\ LET cache_key == get_cache_key(doc)
       IN  IF cache_key.raised # NONE
           THEN /\ cache' = [ cache EXCEPT !.sets = @ + 1 ]
                /\ set_call' = Some([ file |-> doc, raised |-> cache_key.raised,
                                      key |-> NONE, before |-> cache.files,
                                      removed |-> {} ])
           ELSE \E old \in EvictionChoices(cache.files, cache.max_size) :
                /\ cache' = [ cache EXCEPT
                                !.files = WriteCacheFile(cache.files \ old,
                                                         cache_key.value, cache.now),
                                !.sets = @ + 1, !.stored = @ + 1 ]
                /\ set_call' = Some([ file |-> doc, raised |-> NONE,
                                      key |-> cache_key.value, before |-> cache.files,
                                      removed |-> old ])
    /\ UNCHANGED <<scoreVars, policyVars, inferVars, apiVars>>

CacheSet == \E doc \in Documents : DocumentCache_set(doc)

\* the time of the file system advances, at most once between two calls
FsTick ==
    /\ cache.now <= cache.sets
    /\ cache' = [ cache EXCEPT !.now = @ + 1 ]
    /\ UNCHANGED <<set_call, scoreVars, policyVars, inferVars, apiVars>>

NextCache == CacheSet \/ FsTick
SpecCache == InitCache /\ [][NextCache]_vars

SetReturned == IsSome(set_call) /\ The(set_call).raised = NONE

\* C30: after any sequence of set calls made one at a time on a cache with
\* max_size >= 1, the directory holds at most max_size files, the file of the
\* most recent set is there, and what that set removed were the oldest files
\* by modification time.
C30_CacheBoundedNewestKept ==
    IsSome(set_call) =>
        /\ Cardinality(cache.files) <= cache.max_size
        /\ \E f \in cache.files : f.key = "md5 of " \o The(set_call).file.name
        /\ The(set_call).removed \subseteq The(set_call).before
        /\ \A o \in The(set_call).removed,
              f \in The(set_call).before \ The(set_call).removed : o.mtime <= f.mtime

\* the most recent set, on a document of fewer than 8192 bytes, has raised
\* OSError and the directory has no file for the document
C30_Witness ==
    /\ IsSome(set_call)
    /\ The(set_call).file.size < 8192
    /\ The(set_call).raised = "OSError"
    /\ cache.files = The(set_call).before
    /\ ~\E f \in cache.files : f.key = "md5 of " \o The(set_call).file.name

\* what holds: once a set has returned the directory holds at most max_size
\* files, and a set that returns leaves its file there, written at the time of
\* the call, after removing the oldest files
EvictionKeepsTheBound ==
    /\ cache.stored > 0 => Cardinality(cache.files) <= cache.max_size
    /\ SetReturned =>
         /\ CacheFile(The(set_call).key, cache.now) \in cache.files
               \/ \E f \in cache.files : f.key = The(set_call).key /\ f.mtime < cache.now
         /\ The(set_call).removed \subseteq The(set_call).before
         /\ \A o \in The(set_call).removed,
               f \in The(set_call).before \ The(set_call).removed : o.mtime <= f.mtime

\* a set on a full directory has removed an older file, left a newer one, and
\* written its own
EvictionReached ==
    /\ SetReturned
    /\ cache.max_size = 2
    /\ Cardinality(The(set_call).before) = 2
    /\ \E o \in The(set_call).removed, f \in The(set_call).before \ The(set_call).removed :
           o.mtime < f.mtime /\ f \in cache.files
    /\ Cardinality(cache.files) = 2

\* a set on a document of fewer than 8192 bytes raises and writes nothing
SetOnSmallFileRaises ==
    IsSome(set_call) =>
        (The(set_call).raised = "OSError" <=> The(set_call).file.size < 8192)
====
